---- MODULE Spec2Model ----
(***************************************************************************)
(* State machine of the balloc region allocator (src/src/balloc.c).        *)
(*                                                                         *)
(* The arena is the array buffer[0 .. N-1] of 32-bit words.  A word is     *)
(* held as the value of its bit pattern read as int32_t, so the header of  *)
(* a taken chunk is a negative number and the uint32_t link 0xFFFFFFFF is  *)
(* the number -1.  A chunk pointer is the word index of its header, a data *)
(* pointer the word index of its first payload word.                       *)
(*                                                                         *)
(* A size_t byte count is the record [wraps, low] standing for the number  *)
(* wraps * 2^34 + low (low < 2^30): TLC's integers stop at 2^31 - 1, and   *)
(* the only thing the code does with a byte count is compare it with 0     *)
(* and shift it right by two into a uint32_t.                              *)
(***************************************************************************)
EXTENDS Integers, Sequences, FiniteSets

VARIABLES buffer, lists, buffer_bytes, power, live

vars == <<buffer, lists, buffer_bytes, power, live>>

-----------------------------------------------------------------------------
(* Bounds of the model *)

\* words of the arena handed to balloc_init
ArenaWords == 12
\* words of the larger arena, where free lists hold chunks of different sizes
ListArenaWords == 14
\* largest in-range byte count a caller asks for
MaxBytes == 44
\* largest size-class exponent handed to balloc_init
MaxPower == 2
\* number of distinct huge byte counts (multiples of 2^34 plus a small rest)
MaxWraps == 1
\* arenas handed to balloc_init alone: MinInitWords .. MaxInitWords words,
\* class powers 1 .. MaxInitPower
MinInitWords == 4
MaxInitWords == 40
MaxInitPower == 5
\* first word of the data pattern a caller stores
DataBase == 100
\* words of the row on which transfer is run alone
CopyWords == 5
\* words of the arena in which a block with a free neighbour is relocated
MoveArenaWords == 21
\* class powers for which alloc_class is run alone: 1 .. MaxClassPower
MaxClassPower == 8

-----------------------------------------------------------------------------
(* Program constants *)

\* #define NIL 0xFFFFFFFF, as an int32 bit pattern
NIL == -1
\* the C null pointer; no word index
NULL == -2
BALLOC_LIST_CLASSES == 8
COAL_L == 1
COAL_R == 2
\* sizeof(struct chunk) and sizeof(uint32_t), in bytes
SIZEOF_CHUNK == 12
SIZEOF_U32 == 4
\* int32_t size: a chunk size is below 2^(SizeBits)
SizeBits == 31

-----------------------------------------------------------------------------
(* size_t values *)

\* Val({F(x) : x \in {e}}) is F(e), with e evaluated once: it sequences the
\* statements of a C function, each on the memory the one before left
Val(S) == CHOOSE r \in S : TRUE

SizeT(k, b) == [wraps |-> k, low |-> b]

IsZero(byte_size) == byte_size.wraps = 0 /\ byte_size.low = 0

\* uint32_t size = (byte_size + 0x3) >> 2 : the assignment to uint32_t drops
\* the multiples of 2^32 words, i.e. the wraps part of the byte count
round_up(byte_size) == (byte_size.low + 3) \div 4

\* uint32_t size = byte_size >> 2, of a byte offset inside the arena
round_down(byte_off) == byte_off \div 4

-----------------------------------------------------------------------------
(* Chunk primitives.  buf is the arena contents, chunk a header index. *)

abs(x) == IF x < 0 THEN -x ELSE x
\* mutant: neg written like abs, so a positive size stays positive
neg_like_abs(x) == IF x < 0 THEN -x ELSE x
neg(x) == IF x < 0 THEN x ELSE -x

get_offset(chunk) == IF chunk = NULL THEN NIL ELSE round_down(4 * chunk)

get_chunk(offset) == IF offset = NIL THEN NULL ELSE offset

\* mutant: the data pointer is &(chunk->prev)
get_ptr_at_prev(chunk) == IF chunk = NULL THEN NULL ELSE chunk + 2

get_ptr(chunk) == IF chunk = NULL THEN NULL ELSE chunk + 1

from_ptr(p) == p - 1

chunk_space(buf, chunk) == abs(buf[chunk]) + 2

get_footer(buf, chunk) == chunk + 1 + abs(buf[chunk])

check_meta(buf, chunk) == buf[chunk] = buf[get_footer(buf, chunk)]

set_footer(buf, chunk, footer_val) ==
    [buf EXCEPT ![get_footer(buf, chunk)] = footer_val]

set_size(buf, chunk, size) ==
    set_footer([buf EXCEPT ![chunk] = size], chunk, size)

from_footer(buf, foot) == foot - abs(buf[foot]) - 1

get_next(buf, chunk) ==
    IF buf[chunk + 1] = NIL THEN NULL ELSE get_chunk(buf[chunk + 1])

get_prev(buf, chunk) ==
    IF buf[chunk + 2] = NIL THEN NULL ELSE get_chunk(buf[chunk + 2])

\* (void *) adj >= (void *) ((uint8_t *) state->buffer + state->buffer_bytes)
get_adj_next(m, chunk) ==
    LET adj == get_footer(m.buffer, chunk) + 1
    IN  IF 4 * adj >= m.buffer_bytes THEN NULL ELSE adj

get_adj_prev(m, chunk) ==
    LET prev_foot == chunk - 1
    IN  IF prev_foot < 0 THEN NULL ELSE from_footer(m.buffer, prev_foot)

-----------------------------------------------------------------------------
(* Size classes *)

\* comp <<= power on a uint32_t: the bits shifted past bit 31 are lost
Shl32(x, k) == IF x < 2 ^ (31 - k) THEN x * (2 ^ k) ELSE (x % (2 ^ (31 - k))) * (2 ^ k)

RECURSIVE alloc_class_loop(_, _, _, _)
alloc_class_loop(asize, comp, pw, i) ==
    IF i >= BALLOC_LIST_CLASSES THEN BALLOC_LIST_CLASSES - 1
    ELSE IF asize < comp THEN i
    ELSE alloc_class_loop(asize, Shl32(comp, pw), pw, i + 1)

alloc_class(size, pw) == alloc_class_loop(abs(size), Shl32(1, pw), pw, 0)

-----------------------------------------------------------------------------
(* Free lists.  m is a struct balloc: [buffer, buffer_bytes, power, lists]. *)

\* mutant: removing the only entry leaves the list head pointing at it
remove_chunk_list_keeps_head(m, chunk, list) ==
    LET prev == get_prev(m.buffer, chunk)
        next == get_next(m.buffer, chunk)
    IN  IF prev = NULL /\ next = NULL
          THEN m
        ELSE IF prev = NULL
          THEN [m EXCEPT !.lists[list] = m.buffer[chunk + 1],
                         !.buffer[next + 2] = NIL]
        ELSE IF next = NULL
          THEN [m EXCEPT !.buffer[prev + 1] = NIL]
        ELSE [m EXCEPT !.buffer[prev + 1] = m.buffer[chunk + 1],
                       !.buffer[next + 2] = m.buffer[chunk + 2]]

\* mutant: the chunk promoted to head keeps its backward link
remove_chunk_list_stale_prev(m, chunk, list) ==
    LET prev == get_prev(m.buffer, chunk)
        next == get_next(m.buffer, chunk)
    IN  IF prev = NULL /\ next = NULL
          THEN [m EXCEPT !.lists[list] = NIL]
        ELSE IF prev = NULL
          THEN [m EXCEPT !.lists[list] = m.buffer[chunk + 1]]
        ELSE IF next = NULL
          THEN [m EXCEPT !.buffer[prev + 1] = NIL]
        ELSE [m EXCEPT !.buffer[prev + 1] = m.buffer[chunk + 1],
                       !.buffer[next + 2] = m.buffer[chunk + 2]]

remove_chunk_list(m, chunk, list) ==
    LET prev == get_prev(m.buffer, chunk)
        next == get_next(m.buffer, chunk)
    IN  IF prev = NULL /\ next = NULL
          THEN [m EXCEPT !.lists[list] = NIL]
        ELSE IF prev = NULL
          THEN [m EXCEPT !.lists[list] = m.buffer[chunk + 1],
                         !.buffer[next + 2] = NIL]
        ELSE IF next = NULL
          THEN [m EXCEPT !.buffer[prev + 1] = NIL]
        ELSE [m EXCEPT !.buffer[prev + 1] = m.buffer[chunk + 1],
                       !.buffer[next + 2] = m.buffer[chunk + 2]]

\* mutant: a chunk that becomes the new root is linked in, but the list head
\* is not moved to it
RECURSIVE add_chunk_walk_keeps_root(_, _, _, _, _)
add_chunk_walk_keeps_root(m, chunk, list, curr, prev) ==
    IF curr = NULL
      THEN [m EXCEPT !.buffer[prev + 1] = get_offset(chunk),
                     !.buffer[chunk + 2] = get_offset(prev),
                     !.buffer[chunk + 1] = NIL]
    ELSE IF m.buffer[chunk] < m.buffer[curr]
      THEN IF prev = NULL
             THEN [m EXCEPT !.buffer[curr + 2] = get_offset(chunk),
                            !.buffer[chunk + 1] = get_offset(curr),
                            !.buffer[chunk + 2] = NIL]
             ELSE [m EXCEPT !.buffer[prev + 1] = get_offset(chunk),
                            !.buffer[curr + 2] = get_offset(chunk),
                            !.buffer[chunk + 1] = get_offset(curr),
                            !.buffer[chunk + 2] = get_offset(prev)]
    ELSE add_chunk_walk_keeps_root(m, chunk, list, get_next(m.buffer, curr), curr)

\* mutant: a chunk appended to a list points forward to the chunk before it
RECURSIVE add_chunk_walk_links_back(_, _, _, _, _)
add_chunk_walk_links_back(m, chunk, list, curr, prev) ==
    IF curr = NULL
      THEN [m EXCEPT !.buffer[prev + 1] = get_offset(chunk),
                     !.buffer[chunk + 2] = get_offset(prev),
                     !.buffer[chunk + 1] = get_offset(prev)]
    ELSE IF m.buffer[chunk] < m.buffer[curr]
      THEN IF prev = NULL
             THEN [m EXCEPT !.lists[list] = get_offset(chunk),
                            !.buffer[curr + 2] = get_offset(chunk),
                            !.buffer[chunk + 1] = get_offset(curr),
                            !.buffer[chunk + 2] = NIL]
             ELSE [m EXCEPT !.buffer[prev + 1] = get_offset(chunk),
                            !.buffer[curr + 2] = get_offset(chunk),
                            !.buffer[chunk + 1] = get_offset(curr),
                            !.buffer[chunk + 2] = get_offset(prev)]
    ELSE add_chunk_walk_links_back(m, chunk, list, get_next(m.buffer, curr), curr)

\* mutant: the walk stops at the first entry that is smaller, not greater
RECURSIVE add_chunk_walk_descending(_, _, _, _, _)
add_chunk_walk_descending(m, chunk, list, curr, prev) ==
    IF curr = NULL
      THEN [m EXCEPT !.buffer[prev + 1] = get_offset(chunk),
                     !.buffer[chunk + 2] = get_offset(prev),
                     !.buffer[chunk + 1] = NIL]
    ELSE IF m.buffer[chunk] > m.buffer[curr]
      THEN IF prev = NULL
             THEN [m EXCEPT !.lists[list] = get_offset(chunk),
                            !.buffer[curr + 2] = get_offset(chunk),
                            !.buffer[chunk + 1] = get_offset(curr),
                            !.buffer[chunk + 2] = NIL]
             ELSE [m EXCEPT !.buffer[prev + 1] = get_offset(chunk),
                            !.buffer[curr + 2] = get_offset(chunk),
                            !.buffer[chunk + 1] = get_offset(curr),
                            !.buffer[chunk + 2] = get_offset(prev)]
    ELSE add_chunk_walk_descending(m, chunk, list, get_next(m.buffer, curr), curr)

\* mutant: the walk stops at the first entry that is not smaller, so the
\* chunk goes before the entries of its own size
RECURSIVE add_chunk_walk_before_equals(_, _, _, _, _)
add_chunk_walk_before_equals(m, chunk, list, curr, prev) ==
    IF curr = NULL
      THEN [m EXCEPT !.buffer[prev + 1] = get_offset(chunk),
                     !.buffer[chunk + 2] = get_offset(prev),
                     !.buffer[chunk + 1] = NIL]
    ELSE IF m.buffer[chunk] <= m.buffer[curr]
      THEN IF prev = NULL
             THEN [m EXCEPT !.lists[list] = get_offset(chunk),
                            !.buffer[curr + 2] = get_offset(chunk),
                            !.buffer[chunk + 1] = get_offset(curr),
                            !.buffer[chunk + 2] = NIL]
             ELSE [m EXCEPT !.buffer[prev + 1] = get_offset(chunk),
                            !.buffer[curr + 2] = get_offset(chunk),
                            !.buffer[chunk + 1] = get_offset(curr),
                            !.buffer[chunk + 2] = get_offset(prev)]
    ELSE add_chunk_walk_before_equals(m, chunk, list, get_next(m.buffer, curr), curr)

RECURSIVE add_chunk_walk(_, _, _, _, _)
add_chunk_walk(m, chunk, list, curr, prev) ==
    IF curr = NULL
      THEN \* goes at the end
           [m EXCEPT !.buffer[prev + 1] = get_offset(chunk),
                     !.buffer[chunk + 2] = get_offset(prev),
                     !.buffer[chunk + 1] = NIL]
    ELSE IF m.buffer[chunk] < m.buffer[curr]
      THEN IF prev = NULL
             THEN \* new root
                  [m EXCEPT !.lists[list] = get_offset(chunk),
                            !.buffer[curr + 2] = get_offset(chunk),
                            !.buffer[chunk + 1] = get_offset(curr),
                            !.buffer[chunk + 2] = NIL]
             ELSE \* insert behind curr
                  [m EXCEPT !.buffer[prev + 1] = get_offset(chunk),
                            !.buffer[curr + 2] = get_offset(chunk),
                            !.buffer[chunk + 1] = get_offset(curr),
                            !.buffer[chunk + 2] = get_offset(prev)]
    ELSE add_chunk_walk(m, chunk, list, get_next(m.buffer, curr), curr)

add_chunk_list(m, chunk, list) ==
    IF m.lists[list] = NIL
      THEN [m EXCEPT !.lists[list] = get_offset(chunk),
                     !.buffer[chunk + 1] = NIL,
                     !.buffer[chunk + 2] = NIL]
      ELSE add_chunk_walk(m, chunk, list, get_chunk(m.lists[list]), NULL)

\* mutant: the walk returns the last chunk of the list that fits, not the first
RECURSIVE find_in_list_last(_, _, _)
find_in_list_last(buf, curr, size) ==
    IF curr = NULL THEN NULL
    ELSE IF find_in_list_last(buf, get_next(buf, curr), size) # NULL
      THEN find_in_list_last(buf, get_next(buf, curr), size)
    ELSE IF buf[curr] >= size THEN curr
    ELSE NULL

RECURSIVE find_in_list(_, _, _)
find_in_list(buf, curr, size) ==
    IF curr = NULL THEN NULL
    ELSE IF buf[curr] >= size THEN curr
    ELSE find_in_list(buf, get_next(buf, curr), size)

\* mutant: the search gives up at the first non-empty class without a fit
RECURSIVE find_from_class_stops(_, _, _)
find_from_class_stops(m, size, space_class) ==
    IF space_class >= BALLOC_LIST_CLASSES THEN NULL
    ELSE IF m.lists[space_class] = NIL
      THEN find_from_class_stops(m, size, space_class + 1)
    ELSE find_in_list(m.buffer, get_chunk(m.lists[space_class]), size)

RECURSIVE find_from_class(_, _, _)
find_from_class(m, size, space_class) ==
    IF space_class >= BALLOC_LIST_CLASSES THEN NULL
    ELSE IF m.lists[space_class] = NIL
      THEN find_from_class(m, size, space_class + 1)
    ELSE LET hit == find_in_list(m.buffer, get_chunk(m.lists[space_class]), size)
         IN  IF hit # NULL THEN hit
             ELSE find_from_class(m, size, space_class + 1)

find_best_chunk(m, byte_size) ==
    LET size == round_up(byte_size)
    IN  find_from_class(m, size, alloc_class(size, m.power))

remove_free_chunk(m, chunk) ==
    remove_chunk_list(m, chunk, alloc_class(m.buffer[chunk], m.power))

\* mutant: every freed chunk goes on the list of class 0
add_free_chunk_class0(m, chunk) ==
    add_chunk_list(m, chunk, 0)

add_free_chunk(m, chunk) ==
    add_chunk_list(m, chunk, alloc_class(m.buffer[chunk], m.power))

-----------------------------------------------------------------------------
(* Allocation *)

\* mutant: the threshold is one word short, so a remainder of size 1 is split off
should_break_chunk_early(buf, chunk, byte_size) ==
    LET size0 == round_up(byte_size)
        size == IF size0 < 2 THEN 2 ELSE size0
        space_thresh == round_up(SizeT(0, 2 * (SIZEOF_CHUNK + SIZEOF_U32))) + size - 3
    IN  chunk_space(buf, chunk) >= space_thresh

\* mutant: the threshold is one word long, so a remainder of size 2 is not split off
should_break_chunk_late(buf, chunk, byte_size) ==
    LET size0 == round_up(byte_size)
        size == IF size0 < 2 THEN 2 ELSE size0
        space_thresh == round_up(SizeT(0, 2 * (SIZEOF_CHUNK + SIZEOF_U32))) + size - 1
    IN  chunk_space(buf, chunk) >= space_thresh

\* size_t space_thresh = round_up(2*(sizeof(struct chunk) + sizeof(uint32_t)))
\*                       + size - 2
should_break_chunk(buf, chunk, byte_size) ==
    LET size0 == round_up(byte_size)
        size == IF size0 < 2 THEN 2 ELSE size0
        space_thresh == round_up(SizeT(0, 2 * (SIZEOF_CHUNK + SIZEOF_U32))) + size - 2
    IN  chunk_space(buf, chunk) >= space_thresh

\* mutant: the clearing stops one word early
clear_words_one_less(buf, chunk, words) ==
    [i \in DOMAIN buf |-> IF i >= chunk + 1 /\ i < chunk + words THEN 0 ELSE buf[i]]

\* mutant: the clearing starts at &(chunk->prev)
clear_words_from_prev(buf, chunk, words) ==
    [i \in DOMAIN buf |-> IF i >= chunk + 2 /\ i < chunk + 2 + words THEN 0 ELSE buf[i]]

\* mutant: the clearing runs two words further
clear_words_two_more(buf, chunk, words) ==
    [i \in DOMAIN buf |-> IF i >= chunk + 1 /\ i < chunk + 3 + words THEN 0 ELSE buf[i]]

\* while (words-- > 0) { *word = 0; ++word; } from &(chunk->next)
clear_words(buf, chunk, words) ==
    [i \in DOMAIN buf |-> IF i >= chunk + 1 /\ i < chunk + 1 + words THEN 0 ELSE buf[i]]

\* mutant: the remainder of a split is one word shorter than the space left
allocate_chunk_short_rest(m, chunk, byte_size, clear) ==
    LET m1 == IF should_break_chunk(m.buffer, chunk, byte_size)
                THEN LET size0 == round_up(byte_size)
                         size == IF size0 < 2 THEN 2 ELSE size0
                         available_space == chunk_space(m.buffer, chunk) - 5
                         b1 == set_size(m.buffer, chunk, size)
                         new_chunk == get_adj_next([m EXCEPT !.buffer = b1], chunk)
                         b2 == set_size(b1, new_chunk, available_space - size)
                     IN  add_free_chunk([m EXCEPT !.buffer = b2], new_chunk)
                ELSE [m EXCEPT !.buffer[chunk + 1] = NIL,
                               !.buffer[chunk + 2] = NIL]
    IN  Val({ Val({ [m2 EXCEPT !.buffer = set_size(m2.buffer, chunk, neg(m2.buffer[chunk]))]
                    : m2 \in {IF clear
                                THEN [mb EXCEPT !.buffer =
                                         clear_words(mb.buffer, chunk, round_up(byte_size))]
                                ELSE mb} })
              : mb \in {m1} })

\* the chunk is off every list; the result is memory with the chunk taken
allocate_chunk(m, chunk, byte_size, clear) ==
    LET m1 == IF should_break_chunk(m.buffer, chunk, byte_size)
                THEN LET size0 == round_up(byte_size)
                         size == IF size0 < 2 THEN 2 ELSE size0
                         available_space == chunk_space(m.buffer, chunk) - 4
                         b1 == set_size(m.buffer, chunk, size)
                         new_chunk == get_adj_next([m EXCEPT !.buffer = b1], chunk)
                         b2 == set_size(b1, new_chunk, available_space - size)
                     IN  add_free_chunk([m EXCEPT !.buffer = b2], new_chunk)
                ELSE [m EXCEPT !.buffer[chunk + 1] = NIL,
                               !.buffer[chunk + 2] = NIL]
    IN  Val({ Val({ [m2 EXCEPT !.buffer = set_size(m2.buffer, chunk, neg(m2.buffer[chunk]))]
                    : m2 \in {IF clear
                                THEN [mb EXCEPT !.buffer =
                                         clear_words(mb.buffer, chunk, round_up(byte_size))]
                                ELSE mb} })
              : mb \in {m1} })

\* mutant: a request of 0 bytes is searched for like any other
allocate_zero_too(m, byte_size, clear) ==
    Val({ IF chunk = NULL THEN [m |-> m, chunk |-> NULL]
          ELSE Val({ [m |-> allocate_chunk(m1, chunk, byte_size, clear),
                      chunk |-> chunk]
                     : m1 \in {remove_free_chunk(m, chunk)} })
          : chunk \in {find_best_chunk(m, byte_size)} })

\* result: [m, chunk], chunk = NULL when nothing was allocated
allocate(m, byte_size, clear) ==
    IF IsZero(byte_size) THEN [m |-> m, chunk |-> NULL]
    ELSE Val({ IF chunk = NULL THEN [m |-> m, chunk |-> NULL]
               ELSE Val({ [m |-> allocate_chunk(m1, chunk, byte_size, clear),
                           chunk |-> chunk]
                          : m1 \in {remove_free_chunk(m, chunk)} })
               : chunk \in {find_best_chunk(m, byte_size)} })

-----------------------------------------------------------------------------
(* Coalescing *)

\* mutant: the header and footer between the two chunks are not reclaimed
join_untagged(buf, l, r) == set_size(buf, l, buf[l] + buf[r])

\* l and r are adjacent, l is the lower one; the result is the arena
join(buf, l, r) == set_size(buf, l, buf[l] + buf[r] + 2)

\* mutant: the right neighbour is never merged
coalesce_right_never(m, chunk) == [m |-> m, chunk |-> chunk]

RECURSIVE coalesce_right(_, _)
coalesce_right(m, chunk) ==
    LET r == get_adj_next(m, chunk)
    IN  IF r # NULL /\ m.buffer[r] > 0
          THEN Val({ coalesce_right(m2, chunk)
                     : m2 \in { [m1 EXCEPT !.buffer = join(m1.buffer, chunk, r)]
                                : m1 \in {remove_free_chunk(m, r)} } })
          ELSE [m |-> m, chunk |-> chunk]

\* mutant: the left neighbour is never merged
coalesce_left_never(m, chunk) == [m |-> m, chunk |-> chunk]

RECURSIVE coalesce_left(_, _)
coalesce_left(m, chunk) ==
    LET l == get_adj_prev(m, chunk)
    IN  IF l # NULL /\ m.buffer[l] > 0
          THEN Val({ coalesce_left(m2, l)
                     : m2 \in { [m1 EXCEPT !.buffer = join(m1.buffer, l, chunk)]
                                : m1 \in {remove_free_chunk(m, l)} } })
          ELSE [m |-> m, chunk |-> chunk]

\* mutant: dir == d instead of (dir & d) != 0
HasDir_equal(dir, d) == dir = d

\* (dir & d) != 0, for d a single bit
HasDir(dir, d) == (dir \div d) % 2 = 1

\* result: [m, chunk], the memory and the chunk that was formed
coalesce(m, chunk, dir) ==
    Val({ IF HasDir(dir, COAL_L) THEN coalesce_left(a.m, a.chunk) ELSE a
          : a \in {IF HasDir(dir, COAL_R) THEN coalesce_right(m, chunk)
                   ELSE [m |-> m, chunk |-> chunk]} })

\* mutant: the right walk adds the sizes of the chunks, not their spans
RECURSIVE probe_right_sizes(_, _)
probe_right_sizes(m, r) ==
    IF r # NULL /\ m.buffer[r] > 0
      THEN m.buffer[r] + probe_right_sizes(m, get_adj_next(m, r))
      ELSE 0

RECURSIVE probe_right(_, _)
probe_right(m, r) ==
    IF r # NULL /\ m.buffer[r] > 0
      THEN chunk_space(m.buffer, r) + probe_right(m, get_adj_next(m, r))
      ELSE 0

\* mutant: the left walk adds the sizes of the chunks, not their spans
RECURSIVE probe_left_sizes(_, _)
probe_left_sizes(m, l) ==
    IF l # NULL /\ m.buffer[l] > 0
      THEN m.buffer[l] + probe_left_sizes(m, get_adj_prev(m, l))
      ELSE 0

RECURSIVE probe_left(_, _)
probe_left(m, l) ==
    IF l # NULL /\ m.buffer[l] > 0
      THEN chunk_space(m.buffer, l) + probe_left(m, get_adj_prev(m, l))
      ELSE 0

coalesce_probe(m, chunk, dir) ==
    chunk_space(m.buffer, chunk)
    + (IF HasDir(dir, COAL_R) THEN probe_right(m, get_adj_next(m, chunk)) ELSE 0)
    + (IF HasDir(dir, COAL_L) THEN probe_left(m, get_adj_prev(m, chunk)) ELSE 0)

-----------------------------------------------------------------------------
(* Word copy *)

RECURSIVE copy_up(_, _, _, _, _)
copy_up(buf, dst, src, i, n) ==
    IF i >= n THEN buf
    ELSE Val({ copy_up(b, dst, src, i + 1, n)
               : b \in {[buf EXCEPT ![dst + i] = buf[src + i]]} })

RECURSIVE copy_down(_, _, _, _)
copy_down(buf, dst, src, i) ==
    IF i < 0 THEN buf
    ELSE Val({ copy_down(b, dst, src, i - 1)
               : b \in {[buf EXCEPT ![dst + i] = buf[src + i]]} })

\* the loops run one word at a time on the arena as it is at that moment
transfer(buf, dst, src, n) ==
    IF src < dst THEN copy_up(buf, dst, src, 0, n)
    ELSE IF src > dst THEN copy_down(buf, dst, src, n - 1)
    ELSE buf

-----------------------------------------------------------------------------
(* Release and resize *)

\* mutant: the chunk released goes on its list as it is, merged with nothing
deallocate_unmerged(m, chunk) ==
    LET b1 == set_size(m.buffer, chunk, abs(m.buffer[chunk]))
    IN  add_free_chunk([m EXCEPT !.buffer = b1], chunk)

\* mutant: a released chunk is merged with its left neighbours only
deallocate_left_only(m, chunk) ==
    LET b1 == set_size(m.buffer, chunk, abs(m.buffer[chunk]))
    IN  Val({ add_free_chunk(c.m, c.chunk)
              : c \in {coalesce([m EXCEPT !.buffer = b1], chunk, COAL_L)} })

deallocate(m, chunk) ==
    LET b1 == set_size(m.buffer, chunk, abs(m.buffer[chunk]))
    IN  Val({ add_free_chunk(c.m, c.chunk)
              : c \in {coalesce([m EXCEPT !.buffer = b1], chunk, COAL_L + COAL_R)} })

\* result: [m, chunk, rcase]; rcase is the case of the four that ran
reallocate(m, chunk, byte_size) ==
    LET size == round_up(byte_size)
        src == get_ptr(chunk)
        num_words == abs(m.buffer[chunk])
        coal_r == coalesce_probe(m, chunk, COAL_R) - 2
        coal_lr == coal_r + coalesce_probe(m, chunk, COAL_L)
                          - chunk_space(m.buffer, chunk)
        freed == [m EXCEPT !.buffer = set_size(m.buffer, chunk, abs(m.buffer[chunk]))]
    IN  IF abs(m.buffer[chunk]) >= size
          THEN [m |-> m, chunk |-> chunk, rcase |-> 1]
        ELSE IF coal_r >= size
          THEN Val({ [m |-> allocate_chunk(c.m, c.chunk, byte_size, FALSE),
                      chunk |-> c.chunk, rcase |-> 2]
                     : c \in {coalesce(freed, chunk, COAL_R)} })
        ELSE IF coal_lr >= size
          THEN Val({ Val({ [m |-> [m1 EXCEPT !.buffer =
                                      transfer(m1.buffer, get_ptr(c.chunk), src, num_words)],
                            chunk |-> c.chunk, rcase |-> 3]
                           : m1 \in {allocate_chunk(c.m, c.chunk, byte_size, FALSE)} })
                     : c \in {coalesce(freed, chunk, COAL_L + COAL_R)} })
        ELSE Val({ IF a.chunk = NULL
                     THEN [m |-> m, chunk |-> NULL, rcase |-> 4]
                     ELSE Val({ [m |-> deallocate(m1, chunk), chunk |-> a.chunk, rcase |-> 4]
                                : m1 \in {[a.m EXCEPT !.buffer =
                                             transfer(a.m.buffer, get_ptr(a.chunk), src, num_words)]} })
                   : a \in {allocate(m, byte_size, FALSE)} })

-----------------------------------------------------------------------------
(* Public entry points.  Each result is [m, ptr] (and rcase for realloc). *)

\* the arena as the caller hands it over: every word zero
BlankArena(nbytes) == [i \in 0 .. (nbytes \div 4) - 1 |-> 0]

\* result: the struct balloc after the call
\* mutant: the initial chunk is two words short of the arena
balloc_init_short(buff, buff_size, pw) ==
    LET init == 0
        size == round_up(SizeT(0, buff_size)) - 4
        b1 == [buff EXCEPT ![init] = size, ![init + 1] = NIL, ![init + 2] = NIL]
        b2 == set_footer(b1, init, size)
        st == [buffer |-> b2, buffer_bytes |-> buff_size, power |-> pw,
               lists |-> [i \in 0 .. BALLOC_LIST_CLASSES - 1 |-> NIL]]
    IN  add_free_chunk(st, init)

balloc_init(buff, buff_size, pw) ==
    LET init == 0
        size == round_up(SizeT(0, buff_size)) - 2
        b1 == [buff EXCEPT ![init] = size, ![init + 1] = NIL, ![init + 2] = NIL]
        b2 == set_footer(b1, init, size)
        st == [buffer |-> b2, buffer_bytes |-> buff_size, power |-> pw,
               lists |-> [i \in 0 .. BALLOC_LIST_CLASSES - 1 |-> NIL]]
    IN  add_free_chunk(st, init)

balloc_malloc(m, size) ==
    Val({ [m |-> a.m, ptr |-> get_ptr(a.chunk)] : a \in {allocate(m, size, FALSE)} })

balloc_calloc(m, nmemb, size) ==
    Val({ [m |-> a.m, ptr |-> get_ptr(a.chunk)]
          : a \in {allocate(m, SizeT(0, nmemb * size), TRUE)} })

\* mutant: the header's sign is not looked at before releasing
balloc_free_any_sign(m, ptr) ==
    IF ptr = NULL THEN m
    ELSE LET chunk == from_ptr(ptr)
         IN  IF ~check_meta(m.buffer, chunk) THEN m
             ELSE deallocate(m, chunk)

balloc_free(m, ptr) ==
    IF ptr = NULL THEN m
    ELSE LET chunk == from_ptr(ptr)
         IN  IF ~check_meta(m.buffer, chunk) THEN m
             ELSE IF m.buffer[chunk] >= 0 THEN m
             ELSE deallocate(m, chunk)

\* mutant: the header's sign is not looked at before resizing
balloc_realloc_any_sign(m, ptr, size) ==
    IF ptr = NULL
      THEN Val({ [m |-> a.m, ptr |-> a.ptr, rcase |-> 0] : a \in {balloc_malloc(m, size)} })
    ELSE IF IsZero(size)
      THEN [m |-> balloc_free(m, ptr), ptr |-> NULL, rcase |-> 0]
    ELSE LET chunk == from_ptr(ptr)
         IN  IF ~check_meta(m.buffer, chunk) THEN [m |-> m, ptr |-> NULL, rcase |-> 0]
             ELSE Val({ [m |-> r.m, ptr |-> get_ptr(r.chunk), rcase |-> r.rcase]
                        : r \in {reallocate(m, chunk, size)} })

\* mutant: a resize to 0 bytes returns nil and releases nothing
balloc_realloc_zero_keeps(m, ptr, size) ==
    IF ptr = NULL
      THEN Val({ [m |-> a.m, ptr |-> a.ptr, rcase |-> 0] : a \in {balloc_malloc(m, size)} })
    ELSE IF IsZero(size)
      THEN [m |-> m, ptr |-> NULL, rcase |-> 0]
    ELSE LET chunk == from_ptr(ptr)
         IN  IF ~check_meta(m.buffer, chunk) THEN [m |-> m, ptr |-> NULL, rcase |-> 0]
             ELSE IF m.buffer[chunk] >= 0 THEN [m |-> m, ptr |-> NULL, rcase |-> 0]
             ELSE Val({ [m |-> r.m, ptr |-> get_ptr(r.chunk), rcase |-> r.rcase]
                        : r \in {reallocate(m, chunk, size)} })

\* mutant: a resize that the chunk already satisfies splits off the unused tail
balloc_realloc_trims(m, ptr, size) ==
    IF ptr = NULL
      THEN Val({ [m |-> a.m, ptr |-> a.ptr, rcase |-> 0] : a \in {balloc_malloc(m, size)} })
    ELSE IF IsZero(size)
      THEN [m |-> balloc_free(m, ptr), ptr |-> NULL, rcase |-> 0]
    ELSE LET chunk == from_ptr(ptr)
         IN  IF ~check_meta(m.buffer, chunk) THEN [m |-> m, ptr |-> NULL, rcase |-> 0]
             ELSE IF m.buffer[chunk] >= 0 THEN [m |-> m, ptr |-> NULL, rcase |-> 0]
             ELSE IF abs(m.buffer[chunk]) >= round_up(size)
               THEN [m |-> allocate_chunk(
                              [m EXCEPT !.buffer = set_size(m.buffer, chunk, abs(m.buffer[chunk]))],
                              chunk, size, FALSE),
                     ptr |-> ptr, rcase |-> 1]
             ELSE Val({ [m |-> r.m, ptr |-> get_ptr(r.chunk), rcase |-> r.rcase]
                        : r \in {reallocate(m, chunk, size)} })

balloc_realloc(m, ptr, size) ==
    IF ptr = NULL
      THEN Val({ [m |-> a.m, ptr |-> a.ptr, rcase |-> 0] : a \in {balloc_malloc(m, size)} })
    ELSE IF IsZero(size)
      THEN [m |-> balloc_free(m, ptr), ptr |-> NULL, rcase |-> 0]
    ELSE LET chunk == from_ptr(ptr)
         IN  IF ~check_meta(m.buffer, chunk) THEN [m |-> m, ptr |-> NULL, rcase |-> 0]
             ELSE IF m.buffer[chunk] >= 0 THEN [m |-> m, ptr |-> NULL, rcase |-> 0]
             ELSE Val({ [m |-> r.m, ptr |-> get_ptr(r.chunk), rcase |-> r.rcase]
                        : r \in {reallocate(m, chunk, size)} })

-----------------------------------------------------------------------------
(* The state machine: one caller, one struct balloc over one arena.  live  *)
(* is the set of data pointers the caller holds: returned and not yet      *)
(* released or replaced.                                                   *)

state == [buffer |-> buffer, buffer_bytes |-> buffer_bytes,
          power |-> power, lists |-> lists]

\* the byte counts asked for: 0, the multiples of 4 and the counts one past a
\* multiple of 4, so that every word count comes aligned and unaligned
Bytes == {b \in 0 .. MaxBytes : b % 4 \in {0, 1}}

\* byte counts whose word count fits the arena's 32-bit size fields
ByteCounts == {SizeT(0, b) : b \in Bytes}

\* byte counts of 2^34 and more: (byte_size + 3) >> 2 no longer fits uint32_t
HugeCounts == {SizeT(k, b) : k \in 1 .. MaxWraps, b \in Bytes}

\* the arguments of calloc: element counts and element sizes in bytes
Membs == {0, 1, 2}
ElemSizes == {0, 1, 2}

\* word i of the data a caller stores in a block it owns
Pattern(i) == DataBase + i

Returned(m, held) ==
    /\ buffer' = m.buffer
    /\ lists' = m.lists
    /\ buffer_bytes' = m.buffer_bytes
    /\ power' = m.power
    /\ live' = held

\* what the caller holds after a call that returned ptr
Gained(ptr) == IF ptr = NULL THEN live ELSE live \cup {ptr}

\* a resize that fails (size > 0) leaves the old pointer with the caller
Resized(old, size, ptr) ==
    IF ptr # NULL THEN (live \ {old}) \cup {ptr}
    ELSE IF IsZero(size) THEN live \ {old}
    ELSE live

Init ==
    \E pw \in 1 .. MaxPower :
        LET st == balloc_init(BlankArena(4 * ArenaWords), 4 * ArenaWords, pw)
        IN  /\ buffer = st.buffer
            /\ lists = st.lists
            /\ buffer_bytes = st.buffer_bytes
            /\ power = st.power
            /\ live = {}

\* the caller writes its data over the whole payload of a block it owns
Stored(buf, ptr) ==
    [i \in DOMAIN buf |->
        IF i >= ptr /\ i < ptr + abs(buf[from_ptr(ptr)]) THEN Pattern(i - ptr) ELSE buf[i]]

Fill(ptr) ==
    /\ Stored(buffer, ptr) # buffer
    /\ buffer' = Stored(buffer, ptr)
    /\ UNCHANGED <<lists, buffer_bytes, power, live>>

\* p = balloc_malloc(&state, size)
DoMalloc ==
    \E size \in ByteCounts : \E r \in {balloc_malloc(state, size)} :
        Returned(r.m, Gained(r.ptr))

\* p = balloc_calloc(&state, nmemb, size)
DoCalloc ==
    \E nmemb \in Membs : \E size \in ElemSizes :
        \E r \in {balloc_calloc(state, nmemb, size)} :
            Returned(r.m, Gained(r.ptr))

\* balloc_free(&state, ptr)
DoFree ==
    \E ptr \in live \cup {NULL} : \E m \in {balloc_free(state, ptr)} :
        Returned(m, live \ {ptr})

\* p = balloc_realloc(&state, ptr, size)
DoRealloc ==
    \E ptr \in live \cup {NULL} : \E size \in ByteCounts :
        \E r \in {balloc_realloc(state, ptr, size)} :
            Returned(r.m, Resized(ptr, size, r.ptr))

DoFill == \E ptr \in live : Fill(ptr)

\* p = balloc_malloc(&state, size) with size >= 2^34
DoMallocHuge ==
    \E size \in HugeCounts : \E r \in {balloc_malloc(state, size)} :
        Returned(r.m, Gained(r.ptr))

\* the four public operations
Next == DoMalloc \/ DoCalloc \/ DoFree \/ DoRealloc

Spec == Init /\ [][Next]_vars

\* the same caller also asking for more bytes than the size fields can hold
NextWide == DoMalloc \/ DoCalloc \/ DoFree \/ DoRealloc \/ DoMallocHuge

SpecWide == Init /\ [][NextWide]_vars

\* a larger arena under malloc, free and resize, one byte count per word count
InitLists ==
    \E pw \in 1 .. MaxPower :
        LET st == balloc_init(BlankArena(4 * ListArenaWords), 4 * ListArenaWords, pw)
        IN  /\ buffer = st.buffer
            /\ lists = st.lists
            /\ buffer_bytes = st.buffer_bytes
            /\ power = st.power
            /\ live = {}

WordCounts == {SizeT(0, 4 * w) : w \in 1 .. ListArenaWords - 1}

DoMallocWords ==
    \E size \in WordCounts : \E r \in {balloc_malloc(state, size)} :
        Returned(r.m, Gained(r.ptr))

DoReallocWords ==
    \E ptr \in live : \E size \in WordCounts :
        \E r \in {balloc_realloc(state, ptr, size)} :
            Returned(r.m, Resized(ptr, size, r.ptr))

NextLists == DoMallocWords \/ DoFree \/ DoReallocWords

SpecLists == InitLists /\ [][NextLists]_vars

\* balloc_init alone, on arenas of every size and content: a fresh arena, an
\* arena the caller wrote over, an arena initialised before
InitArenas ==
    \E words \in MinInitWords .. MaxInitWords : \E pw \in 1 .. MaxInitPower :
        LET st == balloc_init(BlankArena(4 * words), 4 * words, pw)
        IN  /\ buffer = st.buffer
            /\ lists = st.lists
            /\ buffer_bytes = st.buffer_bytes
            /\ power = st.power
            /\ live = {}

\* balloc_init(&state, buffer, buffer_bytes, pw) on the arena as it is
DoInit ==
    \E pw \in 1 .. MaxInitPower : \E st \in {balloc_init(buffer, buffer_bytes, pw)} :
        Returned(st, {})

\* the caller writes over the whole arena
DoScribble ==
    /\ buffer' = [i \in DOMAIN buffer |-> Pattern(i)]
    /\ buffer' # buffer
    /\ UNCHANGED <<lists, buffer_bytes, power, live>>

NextInit == DoInit \/ DoScribble

SpecInit == InitArenas /\ [][NextInit]_vars

\* transfer alone, on a row of words that all differ at the start, for every
\* destination, source and count that stay inside the row
InitCopy ==
    /\ buffer = [i \in 0 .. CopyWords - 1 |-> Pattern(i)]
    /\ lists = [i \in 0 .. BALLOC_LIST_CLASSES - 1 |-> NIL]
    /\ buffer_bytes = 4 * CopyWords
    /\ power = 1
    /\ live = {}

\* the (dst, src, n) for which both ranges lie inside the row
CopyArgs ==
    {a \in (0 .. CopyWords - 1) \X (0 .. CopyWords - 1) \X (0 .. CopyWords) :
        a[1] + a[3] <= CopyWords /\ a[2] + a[3] <= CopyWords}

\* transfer(dst, src, n)
DoTransfer ==
    \E a \in CopyArgs : \E b \in {transfer(buffer, a[1], a[2], a[3])} :
        /\ b # buffer
        /\ buffer' = b
        /\ UNCHANGED <<lists, buffer_bytes, power, live>>

NextCopy == DoTransfer

SpecCopy == InitCopy /\ [][NextCopy]_vars

\* an arena with room for a free chunk, a block, a second block and a free
\* chunk that holds more than the first three together; the caller asks for
\* blocks of 2 words and resizes them to 7
InitMove ==
    \E st \in {balloc_init(BlankArena(4 * MoveArenaWords), 4 * MoveArenaWords, MaxPower)} :
        /\ buffer = st.buffer
        /\ lists = st.lists
        /\ buffer_bytes = st.buffer_bytes
        /\ power = st.power
        /\ live = {}

DoMallocMove ==
    \E r \in {balloc_malloc(state, SizeT(0, 8))} :
        Returned(r.m, Gained(r.ptr))

DoReallocMove ==
    \E ptr \in live : \E r \in {balloc_realloc(state, ptr, SizeT(0, 28))} :
        Returned(r.m, Resized(ptr, SizeT(0, 28), r.ptr))

NextMove == DoMallocMove \/ DoFree \/ DoReallocMove

SpecMove == InitMove /\ [][NextMove]_vars

\* the byte counts a resize is evaluated with in that arena: 3, 7 and 9 words
MoveRequests == {SizeT(0, b) : b \in {9, 12, 25, 28, 36}}

\* alloc_class alone: one chunk header holding any size near a power of two,
\* any class power, and the list the chunk is put on
ClassSizes ==
    {s \in {2 ^ k + d : k \in 1 .. SizeBits - 1, d \in {-1, 0, 1}} : s >= 2}
        \cup {(2 ^ (SizeBits - 1) - 1) + 2 ^ (SizeBits - 1)}

InitClass ==
    \E S \in ClassSizes : \E pw \in 1 .. MaxClassPower :
        /\ buffer = [i \in 0 .. 0 |-> S]
        /\ lists = [i \in 0 .. BALLOC_LIST_CLASSES - 1 |-> NIL]
        /\ buffer_bytes = 4
        /\ power = pw
        /\ live = {}

\* state->lists[alloc_class(chunk->size, state->power)] = offset of the chunk
DoClassify ==
    /\ \A i \in DOMAIN lists : lists[i] = NIL
    /\ lists' = [lists EXCEPT ![alloc_class(buffer[0], power)] = 0]
    /\ UNCHANGED <<buffer, buffer_bytes, power, live>>

\* the chunk leaves its list
DoUnclassify ==
    /\ \E i \in DOMAIN lists : lists[i] # NIL
    /\ lists' = [lists EXCEPT ![alloc_class(buffer[0], power)] = NIL]
    /\ UNCHANGED <<buffer, buffer_bytes, power, live>>

NextClass == DoClassify \/ DoUnclassify

SpecClass == InitClass /\ [][NextClass]_vars

\* a caller that keeps data in its blocks
NextData == DoMalloc \/ DoFree \/ DoRealloc \/ DoFill

SpecData == Init /\ [][NextData]_vars

-----------------------------------------------------------------------------
(* Reading the arena as the claims do *)

\* words of the arena
N == buffer_bytes \div 4

\* a word of the arena, 0 outside it
Word(buf, i) == IF i \in DOMAIN buf THEN buf[i] ELSE 0

\* the header indices met walking from word h by steps of |header| + 2
RECURSIVE ChunkSeq(_, _, _)
ChunkSeq(buf, h, n) ==
    IF h >= n \/ h < 0 THEN <<>>
    ELSE <<h>> \o ChunkSeq(buf, h + abs(buf[h]) + 2, n)

\* the word index at which that walk stops
RECURSIVE WalkEnd(_, _, _)
WalkEnd(buf, h, n) ==
    IF h >= n \/ h < 0 THEN h
    ELSE WalkEnd(buf, h + abs(buf[h]) + 2, n)

ChunksOf(m) ==
    LET sq == ChunkSeq(m.buffer, 0, m.buffer_bytes \div 4)
    IN  {sq[i] : i \in 1 .. Len(sq)}

Chunks == ChunksOf(state)

FreeChunksOf(m) == {c \in ChunksOf(m) : m.buffer[c] > 0}

\* the offsets met following forward links from offset off, at most fuel of them
RECURSIVE ListSeq(_, _, _)
ListSeq(buf, off, fuel) ==
    IF off = NIL \/ fuel = 0 \/ (off + 1) \notin DOMAIN buf \/ off < 0 THEN <<>>
    ELSE <<off>> \o ListSeq(buf, buf[off + 1], fuel - 1)

ClassList(m, i) == ListSeq(m.buffer, m.lists[i], (m.buffer_bytes \div 4) + 1)

Classes == 0 .. BALLOC_LIST_CLASSES - 1

\* the (class, position) pairs at which chunk c sits in the free-list set
Places(m, c) ==
    {<<i, j>> \in Classes \X (1 .. (m.buffer_bytes \div 4) + 1) :
        j <= Len(ClassList(m, i)) /\ ClassList(m, i)[j] = c}

\* every offset reachable from a list head
Listed(m) ==
    UNION {{ClassList(m, i)[j] : j \in 1 .. Len(ClassList(m, i))} : i \in Classes}

\* the payload words of the block at data pointer p
Payload(buf, p) == p .. p + abs(Word(buf, p - 1)) - 1

\* ceil(b / 4), computed without the code's shift
CeilDiv4(b) == IF b % 4 = 0 THEN b \div 4 ELSE (b \div 4) + 1

Min(a, b) == IF a < b THEN a ELSE b

-----------------------------------------------------------------------------
(* Claims *)

\* C1: after init and after every public call, walking the arena from word 0
\* by steps of |header| + 2 ends exactly at word N = floor(buffer_bytes / 4),
\* and every chunk met, tags included, lies inside the arena.
C1_Tiling ==
    /\ WalkEnd(buffer, 0, N) = N
    /\ \A c \in Chunks : c + abs(buffer[c]) + 2 <= N

C1_Witness ==
    /\ Cardinality(Chunks) >= 3
    /\ \E c \in Chunks : buffer[c] > 0
    /\ \E c \in Chunks : buffer[c] < 0

\* C2: every chunk of the tiling has header = footer, a header that is not 0
\* and of absolute value at least 2; the chunks with a negative header are
\* exactly the blocks the caller holds, the others are free.
C2_Tags ==
    \A c \in Chunks :
        /\ Word(buffer, c) = Word(buffer, get_footer(buffer, c))
        /\ get_footer(buffer, c) \in DOMAIN buffer
        /\ buffer[c] # 0
        /\ abs(buffer[c]) >= 2
        /\ (buffer[c] < 0) <=> (get_ptr(c) \in live)

C2_Witness ==
    /\ \E c \in Chunks : buffer[c] >= 2 /\ buffer[c] <= 5
    /\ \E c \in Chunks : buffer[c] < -2

\* C3: every pointer the caller holds is one word past the header of a chunk
\* of the tiling, that header is negative, and from_ptr gives that chunk.
C3_LivePointers ==
    \A p \in live :
        /\ from_ptr(p) \in Chunks
        /\ buffer[from_ptr(p)] < 0
        /\ get_ptr(from_ptr(p)) = p

C3_Witness ==
    /\ Cardinality(live) >= 2
    /\ \E c \in Chunks : buffer[c] > 0

\* C4: the payload ranges of the held pointers are pairwise disjoint, lie
\* inside the arena, and hold no word that is a header or footer of a chunk
\* of the tiling or a link word of a chunk on a free list.
C4_PayloadsApart ==
    /\ \A p \in live : Payload(buffer, p) \subseteq 0 .. N - 1
    /\ \A p \in live : Payload(buffer, p) # {}
    /\ \A p, q \in live : p # q => Payload(buffer, p) \cap Payload(buffer, q) = {}
    /\ \A p \in live : \A c \in Chunks :
           /\ c \notin Payload(buffer, p)
           /\ get_footer(buffer, c) \notin Payload(buffer, p)
    /\ \A p \in live : \A c \in Listed(state) :
           /\ (c + 1) \notin Payload(buffer, p)
           /\ (c + 2) \notin Payload(buffer, p)

C4_Witness ==
    /\ Cardinality(live) >= 2
    /\ Listed(state) # {}

\* C5: whenever balloc_malloc(byte_size), byte_size > 0, returns a pointer,
\* the taken chunk has at least ceil(byte_size / 4) payload words - also for
\* byte counts of 2^34 and more.  For byte_size = wraps * 2^34 + low that is
\* wraps * 2^32 + ceil(low / 4) words, which no header holds once wraps > 0.
C5_EnoughWords ==
    \A size \in ByteCounts \cup HugeCounts :
        ~IsZero(size) =>
            LET r == balloc_malloc(state, size)
            IN  r.ptr # NULL =>
                    /\ size.wraps = 0
                    /\ abs(r.m.buffer[from_ptr(r.ptr)]) >= CeilDiv4(size.low)

\* C6: balloc_malloc(B), B > 0, S = ceil(B / 4), returns nil if and only if
\* no free chunk of the arena has size >= S.
C6_NilIffNoFit ==
    \A size \in ByteCounts \cup WordCounts :
        ~IsZero(size) =>
            ((balloc_malloc(state, size).ptr = NULL)
                <=> ~(\E c \in FreeChunksOf(state) : buffer[c] >= CeilDiv4(size.low)))

\* a request whose own class holds free chunks, none of them large enough,
\* and that is served from a higher class; and a request nothing can serve
C6_Witness ==
    /\ \E size \in ByteCounts \cup WordCounts :
          LET c == find_best_chunk(state, size)
              k == alloc_class(round_up(size), power)
          IN  /\ ~IsZero(size)
              /\ c # NULL
              /\ lists[k] # NIL
              /\ alloc_class(buffer[c], power) > k
    /\ \E size \in ByteCounts \cup WordCounts :
          ~IsZero(size) /\ balloc_malloc(state, size).ptr = NULL

\* C7: every free chunk of the tiling is reachable from exactly one class
\* head, exactly once; everything reachable from a head is a free chunk of
\* the tiling, so no taken chunk is.
C7_FreeListed ==
    /\ \A c \in FreeChunksOf(state) : Cardinality(Places(state, c)) = 1
    /\ \A c \in Listed(state) : c \in Chunks /\ buffer[c] > 0

\* blocks are held, and one class list holds two chunks of different sizes
C7_Witness ==
    /\ live # {}
    /\ \E i \in Classes :
          /\ Len(ClassList(state, i)) >= 2
          /\ buffer[ClassList(state, i)[1]] < buffer[ClassList(state, i)[2]]

\* C8: no free chunk has a free neighbour in the arena.  A free left
\* neighbour of c is a free chunk whose right neighbour c is free, so the
\* right-hand test over every free chunk covers both sides.
C8_NoAdjacentFree ==
    \A c \in FreeChunksOf(state) :
        LET nxt == c + buffer[c] + 2
        IN  nxt < N => Word(buffer, nxt) <= 0

\* a free chunk between two taken ones
C8_Witness ==
    \E c \in FreeChunksOf(state) :
        /\ c > 0
        /\ c + buffer[c] + 2 < N
        /\ buffer[c - 1] < 0
        /\ buffer[c + buffer[c] + 2] < 0

\* C9: once the caller holds no pointer the arena is one free chunk:
\* buffer[0] = buffer[N-1] = N - 2, one class head is offset 0 and every
\* other head is nil.
C9_AllReleased ==
    live = {} =>
        /\ buffer[0] = N - 2
        /\ buffer[N - 1] = N - 2
        /\ \E i \in Classes :
              /\ lists[i] = 0
              /\ \A j \in Classes \ {i} : lists[j] = NIL

\* nothing is held, and the arena shows the tags of chunks that were
\* allocated and released
C9_Witness ==
    /\ live = {}
    /\ \E i \in 3 .. N - 2 : buffer[i] > 0

\* C10: when balloc_realloc(p, B'), B' > 0, on a held p whose chunk has s
\* payload words returns a pointer q, the first min(s, ceil(B' / 4)) payload
\* words at q are the payload words that were at p before the call.
C10_Preserved ==
    \A p \in live : \A size \in ByteCounts :
        ~IsZero(size) =>
            LET r == balloc_realloc(state, p, size)
                k == Min(abs(buffer[from_ptr(p)]), CeilDiv4(size.low))
            IN  r.ptr # NULL =>
                    \A i \in 0 .. k - 1 : r.m.buffer[r.ptr + i] = buffer[p + i]

\* C10 for the resizes that merge with the left neighbour and copy (case 3)
C10_PreservedAround ==
    \A p \in live : \A size \in ByteCounts :
        ~IsZero(size) =>
            LET r == balloc_realloc(state, p, size)
                k == Min(abs(buffer[from_ptr(p)]), CeilDiv4(size.low))
            IN  (r.ptr # NULL /\ r.rcase = 3) =>
                    \A i \in 0 .. k - 1 : r.m.buffer[r.ptr + i] = buffer[p + i]

\* C10 for the resizes that relocate (case 4) or change nothing (case 1)
C10_PreservedElsewhere ==
    \A p \in live : \A size \in ByteCounts :
        ~IsZero(size) =>
            LET r == balloc_realloc(state, p, size)
                k == Min(abs(buffer[from_ptr(p)]), CeilDiv4(size.low))
            IN  (r.ptr # NULL /\ r.rcase \in {1, 4}) =>
                    \A i \in 0 .. k - 1 : r.m.buffer[r.ptr + i] = buffer[p + i]

-----------------------------------------------------------------------------
(* Claims C11 .. C20 *)

\* the chunks of the arena as (offset, signed size), and the set of chunks
\* on each class list
Shape(m) ==
    [chunks |-> {<<c, m.buffer[c]>> : c \in ChunksOf(m)},
     listed |-> [i \in Classes |->
                    {ClassList(m, i)[j] : j \in 1 .. Len(ClassList(m, i))}]]

\* the byte counts of a request that is not empty
Requests == {size \in ByteCounts : ~IsZero(size)}

\* C11: when balloc_malloc(n), n > 0, succeeds, balloc_free of the returned
\* pointer right afterwards restores the chunks (offset, size, status) and
\* the set of free chunks on each class list that were there before.
C11_RoundTrip ==
    \A size \in Requests :
        LET r == balloc_malloc(state, size)
        IN  r.ptr # NULL => Shape(balloc_free(r.m, r.ptr)) = Shape(state)

\* blocks are held, one request is served by splitting a free chunk and
\* another by taking a free chunk whole
C11_Witness ==
    /\ live # {}
    /\ \E size \in Requests :
          LET r == balloc_malloc(state, size)
          IN  r.ptr # NULL /\ Cardinality(ChunksOf(r.m)) > Cardinality(Chunks)
    /\ \E size \in Requests :
          LET r == balloc_malloc(state, size)
          IN  r.ptr # NULL /\ Cardinality(ChunksOf(r.m)) = Cardinality(Chunks)

\* C12: for every held pointer p, a second balloc_free(p) right after the
\* first leaves every arena word and every list head as the first left them.
C12_FreeTwice ==
    \A p \in live :
        LET once == balloc_free(state, p)
        IN  balloc_free(once, p) = once

\* a held block between two free chunks: its release merges both ways
C12_Witness ==
    \E p \in live :
        LET c == from_ptr(p)
            l == get_adj_prev(state, c)
            r == get_adj_next(state, c)
        IN  /\ l # NULL /\ buffer[l] > 0
            /\ r # NULL /\ buffer[r] > 0

\* element counts and element sizes of the calloc calls the claims ask about
WideMembs == {0, 1, 2, 3, 4}
WideElemSizes == {0, 1, 2, 4, 9}

\* C13: balloc_malloc and balloc_calloc return nil for a request of 0 bytes,
\* and whenever either returns nil (0 bytes, or no free chunk fits) every
\* arena word and every list head is as it was before the call.
C13_FailedAllocate ==
    /\ \A size \in ByteCounts :
          LET r == balloc_malloc(state, size)
          IN  /\ IsZero(size) => r.ptr = NULL
              /\ r.ptr = NULL => r.m = state
    /\ \A nmemb \in WideMembs : \A size \in WideElemSizes :
          LET r == balloc_calloc(state, nmemb, size)
          IN  /\ nmemb * size = 0 => r.ptr = NULL
              /\ r.ptr = NULL => r.m = state

\* free chunks exist, none fits some malloc request and some calloc request
C13_Witness ==
    /\ FreeChunksOf(state) # {}
    /\ \E size \in Requests : balloc_malloc(state, size).ptr = NULL
    /\ \E nmemb \in WideMembs : \E size \in WideElemSizes :
          nmemb * size > 0 /\ balloc_calloc(state, nmemb, size).ptr = NULL

\* the pointers into the arena whose header and footer words, as the checks
\* of balloc_free and balloc_realloc read them, lie inside the arena
ArgPtrs == {p \in 1 .. N - 1 : p + abs(buffer[p - 1]) \in DOMAIN buffer}

\* the word at p - 1 read as a header, and the word its footer would be
TagsAgree(p) == buffer[p - 1] = buffer[p + abs(buffer[p - 1])]

\* p passes the checks: header = footer and header < 0
Accepted(p) == TagsAgree(p) /\ buffer[p - 1] < 0

\* C14: balloc_realloc(p, B'), p not nil and B' > 0, returns nil when p fails
\* header = footer or p's header is not negative, and whenever it returns nil
\* for such a p or for a held p (no free chunk for the relocation) every
\* arena word and every list head is unchanged - so a held p is still taken,
\* with its size and payload.
C14_FailedResize ==
    \A p \in ArgPtrs : \A size \in Requests :
        LET r == balloc_realloc(state, p, size)
        IN  /\ ~Accepted(p) => (r.ptr = NULL /\ r.m = state)
            /\ (p \in live /\ r.ptr = NULL) => (r.m = state /\ Accepted(p))

\* a held pointer whose resize fails although a free chunk exists, a pointer
\* to a free chunk, and a pointer whose header and footer differ
C14_Witness ==
    /\ FreeChunksOf(state) # {}
    /\ \E p \in live : \E size \in Requests :
          balloc_realloc(state, p, size).ptr = NULL
    /\ \E p \in ArgPtrs : ~TagsAgree(p)

\* C15: balloc_free(ptr) changes no arena word and no list head when ptr is
\* nil, when the chunk at ptr - 1 has header # footer, or when that header is
\* not negative.
C15_FreeRefused ==
    /\ balloc_free(state, NULL) = state
    /\ \A p \in ArgPtrs : ~Accepted(p) => balloc_free(state, p) = state

\* blocks are held; there is a pointer to a free chunk, a pointer whose
\* header and footer differ, and a pointer into a payload whose header is
\* positive and equals its footer
C15_Witness ==
    /\ live # {}
    /\ \E p \in ArgPtrs : from_ptr(p) \in FreeChunksOf(state)
    /\ \E p \in ArgPtrs : ~TagsAgree(p) /\ buffer[p - 1] < 0
    /\ \E p \in ArgPtrs :
          /\ from_ptr(p) \notin Chunks
          /\ TagsAgree(p)
          /\ buffer[p - 1] >= 0

\* C16 as stated: when balloc_calloc(nmemb, size), nmemb * size > 0,
\* succeeds, every one of the |header| payload words of the returned chunk
\* is zero.
C16_AllWordsZero ==
    \A nmemb \in WideMembs : \A size \in WideElemSizes :
        LET r == balloc_calloc(state, nmemb, size)
        IN  (nmemb * size > 0 /\ r.ptr # NULL) =>
                \A i \in 0 .. abs(r.m.buffer[from_ptr(r.ptr)]) - 1 :
                    r.m.buffer[r.ptr + i] = 0

\* C16, amended: when balloc_calloc(nmemb, size), n = nmemb * size > 0,
\* succeeds, the first ceil(n / 4) payload words of the returned chunk are
\* zero (the words that hold the n bytes asked for), and the chunk has at
\* least that many payload words.
C16_AskedWordsZero ==
    \A nmemb \in WideMembs : \A size \in WideElemSizes :
        LET r == balloc_calloc(state, nmemb, size)
        IN  (nmemb * size > 0 /\ r.ptr # NULL) =>
                /\ abs(r.m.buffer[from_ptr(r.ptr)]) >= CeilDiv4(nmemb * size)
                /\ \A i \in 0 .. CeilDiv4(nmemb * size) - 1 :
                       r.m.buffer[r.ptr + i] = 0

\* blocks are held and a calloc succeeds on words that were not zero before
C16_Witness ==
    /\ live # {}
    /\ \E nmemb \in WideMembs : \E size \in WideElemSizes :
          LET r == balloc_calloc(state, nmemb, size)
          IN  /\ nmemb * size > 4
              /\ r.ptr # NULL
              /\ \E i \in 0 .. CeilDiv4(nmemb * size) - 1 : buffer[r.ptr + i] # 0

\* C17: balloc_init(state, buf, B, p) with B a multiple of 4, B >= 16 and
\* N = B / 4 leaves buf[0] = buf[N-1] = N - 2, the head of class
\* alloc_class(N - 2, p) at offset 0 with that chunk's links nil, and the
\* seven other heads nil.
C17_AfterInit ==
    \A pw \in 1 .. MaxInitPower :
        LET st == balloc_init(buffer, buffer_bytes, pw)
            n == buffer_bytes \div 4
            k == alloc_class(n - 2, pw)
        IN  /\ st.buffer[0] = n - 2
            /\ st.buffer[n - 1] = n - 2
            /\ st.lists[k] = 0
            /\ st.buffer[1] = NIL
            /\ st.buffer[2] = NIL
            /\ \A j \in Classes \ {k} : st.lists[j] = NIL
            /\ st.buffer_bytes = buffer_bytes
            /\ st.power = pw

\* an arena of more words than one class spans, holding the caller's data
\* where the tags and links will go
C17_Witness ==
    /\ buffer_bytes >= 4 * 33
    /\ buffer[0] = Pattern(0)
    /\ buffer[(buffer_bytes \div 4) - 1] # (buffer_bytes \div 4) - 2
    /\ \E pw \in 1 .. MaxInitPower : alloc_class((buffer_bytes \div 4) - 2, pw) >= 5

\* C18: balloc_realloc(nil, B) returns what balloc_malloc(B) returns and
\* leaves the same state; balloc_realloc(p, 0), p not nil, returns nil and
\* leaves the state balloc_free(p) leaves - for held pointers and for
\* pointers the checks refuse.
C18_ResizeAsOthers ==
    /\ \A size \in ByteCounts :
          LET r == balloc_realloc(state, NULL, size)
              a == balloc_malloc(state, size)
          IN  r.ptr = a.ptr /\ r.m = a.m
    /\ \A p \in live \cup {q \in ArgPtrs : ~Accepted(q)} :
          LET r == balloc_realloc(state, p, SizeT(0, 0))
          IN  r.ptr = NULL /\ r.m = balloc_free(state, p)

\* a held block with a free neighbour, and a request that can be served
C18_Witness ==
    /\ \E p \in live :
          LET r == get_adj_next(state, from_ptr(p))
          IN  r # NULL /\ buffer[r] > 0
    /\ \E size \in Requests : balloc_malloc(state, size).ptr # NULL
    /\ Cardinality(live) >= 2

\* header, payload and footer of the block at q are in arena b what they are
\* in the current arena
Kept(b, q) ==
    \A i \in q - 1 .. q + abs(buffer[q - 1]) : b[i] = buffer[i]

\* C19: for every held pointer q, a balloc_malloc, balloc_calloc, balloc_free
\* or balloc_realloc call whose argument and result are pointers other than
\* q leaves q's header, footer and every payload word of q unchanged.
C19_OthersUntouched ==
    /\ \A size \in ByteCounts :
          LET r == balloc_malloc(state, size)
          IN  \A q \in live \ {r.ptr} : Kept(r.m.buffer, q)
    /\ \A nmemb \in WideMembs : \A size \in WideElemSizes :
          LET r == balloc_calloc(state, nmemb, size)
          IN  \A q \in live \ {r.ptr} : Kept(r.m.buffer, q)
    /\ \A p \in live \cup {NULL} :
          LET m == balloc_free(state, p)
          IN  \A q \in live \ {p} : Kept(m.buffer, q)
    /\ \A p \in live \cup {NULL} : \A size \in ByteCounts :
          LET r == balloc_realloc(state, p, size)
          IN  \A q \in live \ {p, r.ptr} : Kept(r.m.buffer, q)

\* q holds the caller's data right after p, p has a free chunk on its left,
\* and a resize of p merges around it and copies
C19_Witness ==
    \E p \in live : \E q \in live \ {p} :
        /\ get_adj_next(state, from_ptr(p)) = from_ptr(q)
        /\ buffer[q] = Pattern(0)
        /\ \E size \in Requests : balloc_realloc(state, p, size).rcase = 3

\* the chunks a walk by forward links visits from offset off before it
\* reaches nil, or fuel + 1 when it has not reached nil after fuel chunks
RECURSIVE ListSteps(_, _, _)
ListSteps(buf, off, fuel) ==
    IF off = NIL THEN 0
    ELSE IF fuel = 0 \/ off < 0 \/ (off + 1) \notin DOMAIN buf THEN 1
    ELSE 1 + ListSteps(buf, buf[off + 1], fuel - 1)

\* the free chunks a neighbour walk to the right merges or counts from chunk r
RECURSIVE RightSteps(_, _, _)
RightSteps(m, r, fuel) ==
    IF r = NULL \/ fuel = 0 THEN 0
    ELSE IF m.buffer[r] > 0 THEN 1 + RightSteps(m, get_adj_next(m, r), fuel - 1)
    ELSE 0

\* the same to the left from chunk l
RECURSIVE LeftSteps(_, _, _)
LeftSteps(m, l, fuel) ==
    IF l = NULL \/ fuel = 0 THEN 0
    ELSE IF m.buffer[l] > 0 THEN 1 + LeftSteps(m, get_adj_prev(m, l), fuel - 1)
    ELSE 0

\* C20: from every reachable state each public operation runs to its end:
\* a walk of any class list reaches nil after at most (number of free
\* chunks) chunks, the neighbour walks of coalesce and coalesce_probe stop at
\* a taken chunk or an arena boundary after at most that many chunks, and
\* every call on the state returns a pointer of the arena or nil.
C20_WalksEnd ==
    LET nfree == Cardinality(FreeChunksOf(state))
    IN  /\ \A i \in Classes : ListSteps(buffer, lists[i], N) <= nfree
        /\ \A c \in Chunks :
              /\ RightSteps(state, get_adj_next(state, c), N) <= nfree
              /\ LeftSteps(state, get_adj_prev(state, c), N) <= nfree
        /\ \A size \in ByteCounts : balloc_malloc(state, size).ptr \in {NULL} \cup (1 .. N - 1)
        /\ \A nmemb \in WideMembs : \A size \in WideElemSizes :
              balloc_calloc(state, nmemb, size).ptr \in {NULL} \cup (1 .. N - 1)
        /\ \A p \in live \cup {NULL} : DOMAIN balloc_free(state, p).buffer = DOMAIN buffer
        /\ \A p \in live \cup {NULL} : \A size \in ByteCounts :
              balloc_realloc(state, p, size).ptr \in {NULL} \cup (1 .. N - 1)

\* two free chunks on one list, and a held block between free neighbours
C20_Witness ==
    /\ \E i \in Classes : ListSteps(buffer, lists[i], N) >= 2
    /\ \E p \in live :
          /\ RightSteps(state, get_adj_next(state, from_ptr(p)), N) >= 1
          /\ LeftSteps(state, get_adj_prev(state, from_ptr(p)), N) >= 1

-----------------------------------------------------------------------------
(* Claims C21 .. C30 *)

\* the size-class function as the specification writes it: the smallest i in
\* 0 .. 7 with S < 2^((i + 1) * p), or 7 when there is none
\* (a size is below 2^31, so below every bound with exponent 31 or more)
MathClass(S, p) ==
    LET fit == {i \in Classes : (i + 1) * p >= SizeBits \/ S < 2 ^ ((i + 1) * p)}
    IN  IF fit = {} THEN BALLOC_LIST_CLASSES - 1
        ELSE CHOOSE i \in fit : \A j \in fit : i <= j

\* the offsets on the list of class i
OnList(m, i) == {ClassList(m, i)[j] : j \in 1 .. Len(ClassList(m, i))}

\* C21: in every state between public calls every free chunk of size S is on
\* the list of class alloc_class(S, power), which is the smallest i in 0 .. 7
\* with S < 2^((i + 1) * power), or 7; remove_free_chunk of a free chunk
\* therefore takes it off the list it is on and leaves every other chunk on
\* its list.
C21_OwnClass ==
    \A c \in FreeChunksOf(state) :
        LET k == alloc_class(buffer[c], power)
            m == remove_free_chunk(state, c)
        IN  /\ c \in OnList(state, k)
            /\ k = MathClass(buffer[c], power)
            /\ \A i \in Classes :
                  ClassList(m, i) = SelectSeq(ClassList(state, i), LAMBDA x : x # c)

\* free chunks on the lists of two classes while a block is held
C21_Witness ==
    /\ live # {}
    /\ \E i \in Classes : \E j \in Classes :
          i # j /\ lists[i] # NIL /\ lists[j] # NIL

\* C22: in every state between public calls each class list, read from its
\* head by forward links, is ordered by non-decreasing chunk size.
C22_Sorted ==
    \A i \in Classes :
        LET sq == ClassList(state, i)
        IN  \A j \in 1 .. Len(sq) - 1 : buffer[sq[j]] <= buffer[sq[j + 1]]

\* a list of two chunks of different sizes, the smaller at the higher address
C22_Witness ==
    \E i \in Classes :
        LET sq == ClassList(state, i)
        IN  /\ Len(sq) >= 2
            /\ buffer[sq[1]] < buffer[sq[2]]
            /\ sq[1] > sq[2]

\* nil, or the offset of the header of a free chunk of the tiling of class i
LinkOk(off, i) ==
    \/ off = NIL
    \/ /\ off \in FreeChunksOf(state)
       /\ alloc_class(buffer[off], power) = i

C24_BestFit ==
    \A size \in ByteCounts \cup WordCounts :
        LET c == find_best_chunk(state, size)
        IN  (~IsZero(size) /\ c # NULL) =>
                /\ c \in FreeChunksOf(state)
                /\ buffer[c] >= CeilDiv4(size.low)
                /\ \A d \in FreeChunksOf(state) :
                      buffer[d] >= CeilDiv4(size.low) => buffer[c] <= buffer[d]

\* a request that two free chunks of one class, of different sizes, can serve
C24_Witness ==
    \E size \in WordCounts : \E d \in FreeChunksOf(state) :
          LET c == find_best_chunk(state, size)
          IN  /\ c # NULL
              /\ buffer[c] < buffer[d]
              /\ alloc_class(buffer[c], power) = alloc_class(buffer[d], power)

\* the words asked for: max(2, ceil(B / 4))
AskedWords(size) == IF CeilDiv4(size.low) < 2 THEN 2 ELSE CeilDiv4(size.low)

\* chunk c of size T was handed to allocate_chunk for S words and memory m is
\* the outcome: split into a taken chunk of size S and a free chunk behind
\* it exactly when T >= S + 4, taken whole otherwise
SplitIff(m, c, T, S) ==
    /\ c \in ChunksOf(m)
    /\ m.buffer[c] = IF T >= S + 4 THEN -S ELSE -T
    /\ (T >= S + 4) <=> (c + S + 2 \in FreeChunksOf(m) /\ m.buffer[c + S + 2] = T - S - 2)
    /\ -m.buffer[c] \in S .. S + 3

\* C25: allocate_chunk on a chunk of size T for a request of B > 0 bytes,
\* S = max(2, ceil(B / 4)), splits if and only if T >= S + 4; when it does
\* not split the chunk is taken whole with size T; so the chunk a successful
\* balloc_malloc, balloc_calloc or growing balloc_realloc returns has a size
\* from S to S + 3.
C25_SplitRule ==
    /\ \A size \in Requests :
          LET c == find_best_chunk(state, size)
              r == balloc_malloc(state, size)
          IN  c # NULL =>
                  /\ r.ptr = get_ptr(c)
                  /\ SplitIff(r.m, c, buffer[c], AskedWords(size))
    /\ \A nmemb \in WideMembs : \A esize \in WideElemSizes :
          LET size == SizeT(0, nmemb * esize)
              c == find_best_chunk(state, size)
              r == balloc_calloc(state, nmemb, esize)
          IN  (nmemb * esize > 0 /\ c # NULL) =>
                  /\ r.ptr = get_ptr(c)
                  /\ SplitIff(r.m, c, buffer[c], AskedWords(size))
    /\ \A p \in live : \A size \in Requests :
          LET r == balloc_realloc(state, p, size)
              right == coalesce_probe(state, from_ptr(p), COAL_R) - 2
              around == right + coalesce_probe(state, from_ptr(p), COAL_L)
                              - chunk_space(buffer, from_ptr(p))
          IN  /\ r.rcase = 2 => SplitIff(r.m, from_ptr(r.ptr), right, AskedWords(size))
              /\ r.rcase = 3 => SplitIff(r.m, from_ptr(r.ptr), around, AskedWords(size))
              /\ (r.rcase = 4 /\ r.ptr # NULL) =>
                    -r.m.buffer[from_ptr(r.ptr)] \in AskedWords(size) .. AskedWords(size) + 3

\* requests served by chunks of size S + 3 (taken whole) and S + 4 (split),
\* and a resize in place over a right neighbour that splits
C25_Witness ==
    /\ \E size \in Requests :
          LET c == find_best_chunk(state, size)
          IN  c # NULL /\ buffer[c] = AskedWords(size) + 3
    /\ \E size \in Requests :
          LET c == find_best_chunk(state, size)
          IN  c # NULL /\ buffer[c] = AskedWords(size) + 4
    /\ \E p \in live : \E size \in Requests :
          /\ balloc_realloc(state, p, size).rcase = 2
          /\ coalesce_probe(state, from_ptr(p), COAL_R) - 2 >= AskedWords(size) + 4

\* balloc_malloc(size) from the current state splits the free chunk c
Splits(size, c) ==
    /\ c # NULL
    /\ c = find_best_chunk(state, size)
    /\ should_break_chunk(buffer, c, size)

\* header and footer of the chunk that starts right behind the chunk taken
\* at c for S words, in memory m, both equal to v
RestTagged(m, c, S, v) ==
    /\ Word(m.buffer, c + S + 2) = v
    /\ Word(m.buffer, c + S + 2 + v + 1) = v

\* C26 as stated: when allocate splits a free chunk of size T (span T + 2) for
\* S words, the free chunk created right behind the taken chunk has header
\* and footer equal to span - S - 2 = T - S.
C26_RestAsStated ==
    \A size \in Requests : \A c \in FreeChunksOf(state) :
        Splits(size, c) =>
            RestTagged(balloc_malloc(state, size).m, c, AskedWords(size),
                       chunk_space(buffer, c) - AskedWords(size) - 2)

\* C26, amended: that chunk has header and footer equal to span - S - 4
\* = T - S - 2, the taken chunk and its two tags having used S + 2 words and
\* the two tags of the new chunk two more; its footer is the word that was
\* the footer of the chunk split.
C26_Rest ==
    \A size \in Requests : \A c \in FreeChunksOf(state) :
        Splits(size, c) =>
            LET m == balloc_malloc(state, size).m
                S == AskedWords(size)
            IN  /\ RestTagged(m, c, S, chunk_space(buffer, c) - S - 4)
                /\ c + S + 2 \in FreeChunksOf(m)
                /\ get_footer(m.buffer, c + S + 2) = get_footer(buffer, c)

\* a split while blocks are held, of a chunk that is not the whole arena
C26_Witness ==
    /\ live # {}
    /\ \E size \in Requests : \E c \in FreeChunksOf(state) :
          Splits(size, c) /\ c > 0

\* C27: in an arena of N words just initialised, balloc_malloc(B), B > 0,
\* S = max(2, ceil(B / 4)), N - 2 >= S + 4, returns the pointer to word 1
\* and leaves buffer[0] = buffer[S + 1] = -S and
\* buffer[S + 2] = buffer[N - 1] = N - 4 - S; the chunk at offset S + 2 is
\* the only entry of the free lists.
C27_FirstMalloc ==
    \A pw \in 1 .. MaxInitPower : \A size \in Requests :
        LET st == balloc_init(buffer, buffer_bytes, pw)
            r == balloc_malloc(st, size)
            S == AskedWords(size)
        IN  N - 2 >= S + 4 =>
                /\ r.ptr = 1
                /\ r.m.buffer[0] = -S
                /\ r.m.buffer[S + 1] = -S
                /\ r.m.buffer[S + 2] = N - 4 - S
                /\ r.m.buffer[N - 1] = N - 4 - S
                /\ \A i \in Classes :
                      ClassList(r.m, i) =
                          IF i = alloc_class(N - 4 - S, pw) THEN <<S + 2>> ELSE <<>>
                /\ r.m.buffer[S + 3] = NIL
                /\ r.m.buffer[S + 4] = NIL

\* the initialised 8-word arena, where a request of 1 byte leaves -2, -2, 2, 2
\* in words 0, 3, 4, 7
C27_Witness ==
    /\ N = 8
    /\ buffer[0] = 6
    /\ \E r \in {balloc_malloc(state, SizeT(0, 1))} :
          /\ r.ptr = 1
          /\ r.m.buffer[0] = -2 /\ r.m.buffer[3] = -2
          /\ r.m.buffer[4] = 2 /\ r.m.buffer[7] = 2

\* the free neighbour on the left of chunk c, or NULL
FreeLeft(c) ==
    LET l == get_adj_prev(state, c)
    IN  IF l # NULL /\ buffer[l] > 0 THEN l ELSE NULL

\* the free neighbour on the right of chunk c, or NULL
FreeRight(c) ==
    LET r == get_adj_next(state, c)
    IN  IF r # NULL /\ buffer[r] > 0 THEN r ELSE NULL

\* C28: releasing a taken chunk of size b merges it with each free
\* neighbour, a join of chunks of sizes x and y giving one chunk of size
\* x + y + 2 at the offset of the left one: with a free left neighbour of
\* size a and a free right neighbour of size c the result is one free chunk
\* of size a + b + c + 4 at the left neighbour's offset, on exactly one class
\* list, and the chunks absorbed are on no list.
C28_Merged ==
    /\ \A p \in live :
          LET ch == from_ptr(p)
              l == FreeLeft(ch)
              r == FreeRight(ch)
              m == balloc_free(state, p)
              at == IF l # NULL THEN l ELSE ch
              size == abs(buffer[ch])
                      + (IF l # NULL THEN buffer[l] + 2 ELSE 0)
                      + (IF r # NULL THEN buffer[r] + 2 ELSE 0)
          IN  /\ at \in FreeChunksOf(m)
              /\ m.buffer[at] = size
              /\ m.buffer[at + size + 1] = size
              /\ Cardinality(Places(m, at)) = 1
              /\ \A x \in {ch, r} \ {at, NULL} : x \notin Listed(m) /\ x \notin ChunksOf(m)
              /\ Listed(m) = (Listed(state) \ {l, r}) \cup {at}
    /\ \A p \in live :
          LET ch == from_ptr(p)
              l == FreeLeft(ch)
              r == FreeRight(ch)
              b == abs(buffer[ch])
              freed == set_size(buffer, ch, b)
          IN  /\ r # NULL =>
                    /\ join(freed, ch, r)[ch] = b + buffer[r] + 2
                    /\ join(freed, ch, r)[r + buffer[r] + 1] = b + buffer[r] + 2
              /\ l # NULL =>
                    /\ join(freed, l, ch)[l] = buffer[l] + b + 2
                    /\ join(freed, l, ch)[ch + b + 1] = buffer[l] + b + 2

\* a held block between two free neighbours, whose release leaves one chunk
C28_Witness ==
    \E p \in live :
        /\ FreeLeft(from_ptr(p)) # NULL
        /\ FreeRight(from_ptr(p)) # NULL
        /\ Cardinality(ChunksOf(balloc_free(state, p))) = Cardinality(Chunks) - 2

\* the direction sets: RIGHT, LEFT, LEFT | RIGHT
Dirs == {COAL_R, COAL_L, COAL_L + COAL_R}

\* the state in which reallocate and deallocate call coalesce on chunk c:
\* set_size(chunk, abs(chunk->size)) has made its tags positive
Unsigned(c) == [state EXCEPT !.buffer = set_size(buffer, c, abs(buffer[c]))]

C30_NoShrink ==
    \A p \in live : \A size \in Requests :
        abs(buffer[from_ptr(p)]) >= CeilDiv4(size.low) =>
            LET r == balloc_realloc(state, p, size)
            IN  /\ r.ptr = p
                /\ r.rcase = 1
                /\ r.m = state

\* a held block of S + 4 words or more resized to S words: the tail could
\* have made a chunk of its own
C30_Witness ==
    \E p \in live : \E size \in Requests :
        /\ abs(buffer[from_ptr(p)]) >= AskedWords(size) + 4
        /\ balloc_realloc(state, p, size).ptr = p
        /\ FreeRight(from_ptr(p)) # NULL

-----------------------------------------------------------------------------
(* Claims C31 .. C39 *)

\* the words of the free chunk on the right of chunk c, tags included
SpanRight(c) == IF FreeRight(c) = NULL THEN 0 ELSE buffer[FreeRight(c)] + 2

\* the words of the free chunk on the left of chunk c, tags included
SpanLeft(c) == IF FreeLeft(c) = NULL THEN 0 ELSE buffer[FreeLeft(c)] + 2

\* the chunks left of chunk ch are in memory m what they are now: the same
\* tiling, the same tags, the same payload in every taken chunk
LeftKept(m, ch) ==
    \A c \in Chunks :
        c < ch =>
            /\ c \in ChunksOf(m)
            /\ m.buffer[c] = buffer[c]
            /\ m.buffer[get_footer(buffer, c)] = buffer[get_footer(buffer, c)]
            /\ \A i \in c + 3 .. get_footer(buffer, c) : m.buffer[i] = buffer[i]
            /\ buffer[c] < 0 => (m.buffer[c + 1] = buffer[c + 1] /\ m.buffer[c + 2] = buffer[c + 2])

\* what C31 says of balloc_realloc(p, size) apart from the chunks on the left
GrownRight(p, size) ==
    LET ch == from_ptr(p)
        S == CeilDiv4(size.low)
        T == abs(buffer[ch]) + SpanRight(ch)
        r == balloc_realloc(state, p, size)
    IN  /\ r.ptr = p
        /\ r.rcase = 2
        /\ ch \in ChunksOf(r.m)
        /\ r.m.buffer[ch] < 0
        /\ r.m.buffer[ch] = r.m.buffer[get_footer(r.m.buffer, ch)]
        /\ -r.m.buffer[ch] >= S
        /\ -r.m.buffer[ch] = IF T >= S + 4 THEN S ELSE T
        /\ T >= S + 4 =>
              /\ ch + S + 2 \in FreeChunksOf(r.m)
              /\ Cardinality(Places(r.m, ch + S + 2)) = 1
        /\ FreeRight(ch) \notin Listed(r.m)
        /\ FreeRight(ch) \notin ChunksOf(r.m)

\* s < S' and s plus the span of the free chunk on the right is >= S'
GrowsRight(p, size) ==
    /\ abs(buffer[from_ptr(p)]) < CeilDiv4(size.low)
    /\ abs(buffer[from_ptr(p)]) + SpanRight(from_ptr(p)) >= CeilDiv4(size.low)

\* C31 as stated: balloc_realloc(p, B') on a held p whose chunk has size
\* s < S' = ceil(B' / 4) returns p whenever s plus the span of the free chunk
\* right of it is >= S'; afterwards the chunk at p - 1 is taken with size
\* >= S', exactly S' when a remainder is split off, the neighbour absorbed is
\* on no list, and no word of a chunk left of p has changed.
C31_GrowRightAsStated ==
    \A p \in live : \A size \in Requests :
        GrowsRight(p, size) =>
            /\ GrownRight(p, size)
            /\ \A i \in 0 .. from_ptr(p) - 1 :
                  balloc_realloc(state, p, size).m.buffer[i] = buffer[i]

\* C31, amended: the same, but of the chunks left of p it is the tiling, the
\* tags and the payloads of the taken chunks that have not changed; the link
\* words of a free chunk left of p are rewritten when the neighbour absorbed
\* leaves its list or the remainder enters it.
C31_GrowRight ==
    \A p \in live : \A size \in Requests :
        GrowsRight(p, size) =>
            /\ GrownRight(p, size)
            /\ LeftKept(balloc_realloc(state, p, size).m, from_ptr(p))

\* a held block between two free chunks of one list grows over the right one
C31_Witness ==
    \E p \in live : \E size \in Requests :
        /\ GrowsRight(p, size)
        /\ FreeLeft(from_ptr(p)) # NULL
        /\ get_prev(buffer, FreeLeft(from_ptr(p))) = FreeRight(from_ptr(p))

\* the chunks of memory m that are taken
TakenChunksOf(m) == {c \in ChunksOf(m) : m.buffer[c] < 0}

\* s < S', s plus the span on the right is < S', s plus both spans is >= S'
GrowsAround(p, size) ==
    /\ abs(buffer[from_ptr(p)]) + SpanRight(from_ptr(p)) < CeilDiv4(size.low)
    /\ abs(buffer[from_ptr(p)]) + SpanRight(from_ptr(p)) + SpanLeft(from_ptr(p))
          >= CeilDiv4(size.low)

\* C32: balloc_realloc(p, B') on a held p whose chunk has size s < S' =
\* ceil(B' / 4), when s plus the free span on the right is < S' and s plus
\* the free spans on both sides is >= S', merges the chunk with its free
\* left and right neighbours and returns the data pointer of the leftmost of
\* them; that chunk is then taken with size >= S', split by the rule of
\* allocate_chunk, and no other chunk of the arena becomes taken or free.
C32_GrowAround ==
    \A p \in live : \A size \in Requests :
        GrowsAround(p, size) =>
            LET ch == from_ptr(p)
                l == FreeLeft(ch)
                S == CeilDiv4(size.low)
                T == abs(buffer[ch]) + SpanRight(ch) + SpanLeft(ch)
                r == balloc_realloc(state, p, size)
            IN  /\ l # NULL
                /\ r.rcase = 3
                /\ r.ptr = get_ptr(l)
                /\ l \in TakenChunksOf(r.m)
                /\ r.m.buffer[l] = r.m.buffer[get_footer(r.m.buffer, l)]
                /\ -r.m.buffer[l] >= S
                /\ -r.m.buffer[l] = IF T >= S + 4 THEN S ELSE T
                /\ TakenChunksOf(r.m) = (TakenChunksOf(state) \ {ch}) \cup {l}
                /\ FreeChunksOf(r.m) =
                      (FreeChunksOf(state) \ {l, FreeRight(ch)})
                          \cup (IF T >= S + 4 THEN {l + S + 2} ELSE {})
                /\ Listed(r.m) = FreeChunksOf(r.m)
                /\ \A q \in live \ {p} : Kept(r.m.buffer, q)

\* a held block between two free chunks, neither of which is enough alone
C32_Witness ==
    \E p \in live : \E size \in Requests :
        /\ GrowsAround(p, size)
        /\ FreeRight(from_ptr(p)) # NULL
        /\ abs(buffer[from_ptr(p)]) + SpanLeft(from_ptr(p)) < CeilDiv4(size.low)

\* C33: transfer(dst, src, n) is a memmove: for every n >= 0 and every pair
\* of word ranges, overlapping ones included, dst[i] afterwards equals what
\* src[i] was before the call, for all 0 <= i < n.
C33_Memmove ==
    \A a \in CopyArgs :
        \A i \in 0 .. a[3] - 1 :
            transfer(buffer, a[1], a[2], a[3])[a[1] + i] = buffer[a[2] + i]

\* C33, the ranges that do not overlap: dst[i] afterwards equals what src[i]
\* was before the call, and no word outside dst[0 .. n - 1] has changed.
C33_CopyApart ==
    \A a \in CopyArgs :
        (a[1] + a[3] <= a[2] \/ a[2] + a[3] <= a[1] \/ a[1] = a[2]) =>
            /\ \A i \in 0 .. a[3] - 1 :
                  transfer(buffer, a[1], a[2], a[3])[a[1] + i] = buffer[a[2] + i]
            /\ \A j \in DOMAIN buffer :
                  (j < a[1] \/ j >= a[1] + a[3]) =>
                      transfer(buffer, a[1], a[2], a[3])[j] = buffer[j]

\* neither the chunk, nor the chunk with its free right neighbour, nor the
\* chunk with both free neighbours holds S' words
MustMove(p, size) ==
    abs(buffer[from_ptr(p)]) + SpanRight(from_ptr(p)) + SpanLeft(from_ptr(p))
        < CeilDiv4(size.low)

\* C34: balloc_realloc(p, B'), B' > 0, on a held p relocates exactly when
\* neither the chunk, nor the merge to the right, nor the merge around
\* reaches S' = ceil(B' / 4); it then takes the chunk find_best_chunk picks,
\* split by the rule of allocate_chunk and not zeroed (it holds the old
\* payload), and returns its data pointer; on return the old chunk is free,
\* merged with its free neighbours and on exactly one class list.  When no
\* chunk fits it returns nil and changes nothing.
C34_Relocate ==
    \A p \in live : \A size \in MoveRequests :
        LET ch == from_ptr(p)
            s == abs(buffer[ch])
            c == find_best_chunk(state, size)
            r == balloc_realloc(state, p, size)
            at == IF FreeLeft(ch) # NULL THEN FreeLeft(ch) ELSE ch
            merged == s + SpanLeft(ch) + SpanRight(ch)
        IN  /\ (r.rcase = 4) <=> MustMove(p, size)
            /\ (MustMove(p, size) /\ c = NULL) => (r.ptr = NULL /\ r.m = state)
            /\ (MustMove(p, size) /\ c # NULL) =>
                  /\ r.ptr = get_ptr(c)
                  /\ SplitIff(r.m, c, buffer[c], AskedWords(size))
                  /\ \A i \in 0 .. s - 1 : r.m.buffer[r.ptr + i] = buffer[p + i]
                  /\ at \in FreeChunksOf(r.m)
                  /\ r.m.buffer[at] = merged
                  /\ r.m.buffer[at + merged + 1] = merged
                  /\ Cardinality(Places(r.m, at)) = 1
                  /\ Listed(r.m) = FreeChunksOf(r.m)

\* a held block with a free neighbour too small to grow into, moved to a
\* free chunk further away
C34_Witness ==
    \E p \in live : \E size \in MoveRequests :
        /\ MustMove(p, size)
        /\ find_best_chunk(state, size) # NULL
        /\ SpanLeft(from_ptr(p)) + SpanRight(from_ptr(p)) > 0

\* C35: balloc_calloc for B = nmemb * size > 0 bytes writes zero to the first
\* ceil(B / 4) payload words of the chunk it takes and to no other word: the
\* arena and the lists it leaves are the ones balloc_malloc(B) leaves, with
\* those words zero; the footer, the remainder chunk and the payload words
\* past ceil(B / 4) are as balloc_malloc leaves them.
C35_ZeroExactly ==
    \A nmemb \in WideMembs : \A size \in WideElemSizes :
        LET c == balloc_calloc(state, nmemb, size)
            a == balloc_malloc(state, SizeT(0, nmemb * size))
            k == CeilDiv4(nmemb * size)
        IN  nmemb * size > 0 =>
                /\ c.ptr = a.ptr
                /\ c.m.lists = a.m.lists
                /\ c.ptr # NULL =>
                      c.m.buffer = [i \in DOMAIN buffer |->
                                       IF i >= c.ptr /\ i < c.ptr + k THEN 0
                                       ELSE a.m.buffer[i]]
                /\ c.ptr = NULL => c.m = state

\* blocks are held; a calloc takes a chunk longer than the words asked for,
\* whose next payload word is not zero afterwards; a calloc splits a chunk
C35_Witness ==
    /\ live # {}
    /\ \E nmemb \in WideMembs : \E size \in WideElemSizes :
          LET c == balloc_calloc(state, nmemb, size)
          IN  /\ nmemb * size > 0
              /\ c.ptr # NULL
              /\ abs(c.m.buffer[from_ptr(c.ptr)]) > CeilDiv4(nmemb * size)
              /\ c.m.buffer[c.ptr + CeilDiv4(nmemb * size)] # 0
    /\ \E nmemb \in WideMembs : \E size \in WideElemSizes :
          /\ nmemb * size > 0
          /\ Splits(SizeT(0, nmemb * size), find_best_chunk(state, SizeT(0, nmemb * size)))

\* C36: for every power p in 1 .. 8 and every chunk size S in 2 .. 2^31 - 1,
\* alloc_class(S, p) is the smallest i in 0 .. 7 with S < 2^((i + 1) * p), or
\* 7 if there is none.
C36_ClassAsMath ==
    alloc_class(buffer[0], power) = MathClass(buffer[0], power)

\* C36, where the two agree: powers 1 .. 4 with every size, and every power
\* with sizes below 2^24; with power 2 the classes end below 4, 16, 64, 256,
\* 1024, 4096, 16384 and the last has no end.
C36_ClassInRange ==
    /\ (power <= 4 \/ buffer[0] < 2 ^ 24) =>
          alloc_class(buffer[0], power) = MathClass(buffer[0], power)
    /\ power = 2 =>
          \A i \in 0 .. 6 :
              (alloc_class(buffer[0], power) <= i) <=> (buffer[0] < 4 ^ (i + 1))


-----------------------------------------------------------------------------
(* The process-global variant (knuth.c): one arena in the globals buffer and
   buffer_bytes, one free list rooted at the global base.  km is the record
   [buffer, buffer_bytes, base, wild, hung] of those globals; wild is the word
   a load outside the arena yields, hung is set when a loop of the call
   cannot end.  A pointer is a word index relative to buffer: any integer,
   inside the arena or not. *)

\* the arena lies NullGap words above address 0, where NULL points
NullGap == 2 ^ 20
knuth_NULL == - NullGap
\* buffer[offset] with a uint32_t offset read from a negative word lies
\* OffsetWrap words above the same index taken as signed
OffsetWrap == 2 ^ 30
\* the value of a call whose loop never ends
Stuck == knuth_NULL - 1

\* a load or store through p touches the arena only for these p
InArena(km, p) == p \in DOMAIN km.buffer

load(km, p) == IF InArena(km, p) THEN km.buffer[p] ELSE km.wild

store(km, p, v) == IF InArena(km, p) THEN [km EXCEPT !.buffer[p] = v] ELSE km

\* uint32_t size = (byte_size + (byte_size & 0x3)) >> 2
knuth_round_up(byte_size) == (byte_size + (byte_size % 4)) \div 4

knuth_to_bytes(size) == 4 * size

knuth_get_offset(chunk) ==
    IF chunk = knuth_NULL THEN NIL
    ELSE IF chunk >= OffsetWrap \div 2 THEN chunk - OffsetWrap
    ELSE chunk

knuth_get_chunk(offset) ==
    IF offset = NIL THEN knuth_NULL
    ELSE IF offset < 0 THEN offset + OffsetWrap
    ELSE offset

knuth_get_ptr(chunk) == chunk + 1

knuth_from_ptr(p) == p - 1

knuth_chunk_size(km, chunk) == abs(load(km, chunk)) + 2

knuth_get_footer(km, chunk) == chunk + 1 + abs(load(km, chunk))

knuth_check_meta(km, chunk) ==
    load(km, chunk) = load(km, knuth_get_footer(km, chunk))

knuth_set_footer(km, chunk, footer_val) ==
    store(km, knuth_get_footer(km, chunk), footer_val)

knuth_from_footer(km, foot) == foot - abs(load(km, foot)) - 1

knuth_get_next(km, chunk) ==
    IF load(km, chunk + 1) = NIL THEN knuth_NULL
    ELSE knuth_get_chunk(load(km, chunk + 1))

knuth_get_prev(km, chunk) ==
    IF load(km, chunk + 2) = NIL THEN knuth_NULL
    ELSE knuth_get_chunk(load(km, chunk + 2))

\* adj >= ((uint8_t *) buffer) + buffer_bytes, in words
knuth_get_adj_next(km, chunk) ==
    LET adj == knuth_get_footer(km, chunk) + 1
    IN  IF adj >= (km.buffer_bytes + 3) \div 4 THEN knuth_NULL ELSE adj

knuth_get_adj_prev(km, chunk) ==
    LET adj == knuth_from_footer(km, chunk - 1)
    IN  IF adj < 0 THEN knuth_NULL ELSE adj

\* a walk that has made more steps than there are places a link can name
\* is going round a cycle
WalkFuel(km) == 2 * Cardinality(DOMAIN km.buffer) + 2

RECURSIVE knuth_find_walk(_, _, _, _)
knuth_find_walk(km, curr, size, fuel) ==
    IF curr = knuth_NULL THEN knuth_NULL
    ELSE IF fuel = 0 THEN Stuck
    ELSE IF load(km, curr) >= size THEN curr
    ELSE knuth_find_walk(km, knuth_get_next(km, curr), size, fuel - 1)

knuth_find_best_chunk(km, byte_size) ==
    IF km.base = NIL THEN knuth_NULL
    ELSE knuth_find_walk(km, knuth_get_chunk(km.base),
                         knuth_round_up(byte_size), WalkFuel(km))

knuth_remove_free_chunk(km, chunk) ==
    LET prev == knuth_get_prev(km, chunk)
        next == knuth_get_next(km, chunk)
    IN  IF prev = knuth_NULL /\ next = knuth_NULL THEN
            [km EXCEPT !.base = NIL]
        ELSE IF prev = knuth_NULL THEN
            store([km EXCEPT !.base = load(km, chunk + 1)], next + 2, NIL)
        ELSE IF next = knuth_NULL THEN
            store(km, prev + 1, NIL)
        ELSE
            Val({store(a, next + 2, load(a, chunk + 2)) :
                 a \in {store(km, prev + 1, load(km, chunk + 1))}})

RECURSIVE knuth_add_walk(_, _, _, _, _)
knuth_add_walk(km, chunk, curr, prev, fuel) ==
    IF curr = knuth_NULL THEN
        \* this goes at the end
        Val({store(a, chunk + 2, knuth_get_offset(prev)) :
             a \in {store(km, prev + 1, knuth_get_offset(chunk))}})
    ELSE IF fuel = 0 THEN [km EXCEPT !.hung = TRUE]
    ELSE IF load(km, chunk) > load(km, curr) THEN
        IF prev = knuth_NULL THEN
            \* new base
            Val({store(b, chunk + 1, knuth_get_offset(curr)) :
                 b \in {store(a, curr + 2, a.base) :
                        a \in {[km EXCEPT !.base = knuth_get_offset(chunk)]}}})
        ELSE
            \* add after curr
            LET p2 == curr
                c2 == knuth_get_next(km, curr)
            IN  Val({store(c, chunk + 2, knuth_get_offset(p2)) :
                     c \in {store(b, chunk + 1, knuth_get_offset(c2)) :
                            b \in {store(a, c2 + 2, knuth_get_offset(chunk)) :
                                   a \in {store(km, p2 + 1,
                                                knuth_get_offset(chunk))}}}})
    ELSE knuth_add_walk(km, chunk, knuth_get_next(km, curr), curr, fuel - 1)

knuth_add_free_chunk(km, chunk) ==
    IF km.base = NIL THEN
        Val({store(b, chunk + 2, NIL) :
             b \in {store(a, chunk + 1, NIL) :
                    a \in {[km EXCEPT !.base = knuth_get_offset(chunk)]}}})
    ELSE knuth_add_walk(km, chunk, knuth_get_chunk(km.base), knuth_NULL,
                        WalkFuel(km))

\* while (words-- > 0) { *word = 0; ++word; }
RECURSIVE knuth_clear(_, _, _)
knuth_clear(km, word, words) ==
    IF words = 0 THEN km
    ELSE knuth_clear(store(km, word, 0), word + 1, words - 1)

\* chunk->size = size; set_footer(chunk, chunk->size);
knuth_set_size(km, chunk, size) ==
    Val({knuth_set_footer(a, chunk, size) : a \in {store(km, chunk, size)}})

knuth_allocate_chunk(km, chunk, byte_size, clear) ==
    LET m1 == Val({knuth_remove_free_chunk(km, chunk)})
        break == knuth_to_bytes(load(m1, chunk) + 2)
                     >= SIZEOF_CHUNK + SIZEOF_U32 + byte_size
        available_space == knuth_chunk_size(m1, chunk) - 4
        rounded == knuth_round_up(byte_size)
        size == IF rounded < 2 THEN 2 ELSE rounded
        new_chunk == knuth_get_adj_next(knuth_set_size(m1, chunk, size), chunk)
        broken ==
            Val({knuth_add_free_chunk(b, new_chunk) :
                 b \in {knuth_set_size(a, new_chunk, available_space - size) :
                        a \in {knuth_set_size(m1, chunk, size)}}})
        whole == Val({store(a, chunk + 2, NIL) :
                      a \in {store(m1, chunk + 1, NIL)}})
        m2 == Val({IF break THEN broken ELSE whole})
        m3 == Val({IF clear THEN knuth_clear(m2, chunk + 1, rounded) ELSE m2})
        m4 == Val({knuth_set_size(m3, chunk, neg(load(m3, chunk)))})
    IN  [m |-> m4, ptr |-> knuth_get_ptr(chunk)]

knuth_alloc(km, n, clear) ==
    IF n = 0 THEN [m |-> km, ptr |-> knuth_NULL]
    ELSE LET chunk == Val({knuth_find_best_chunk(km, n)})
         IN  IF chunk = knuth_NULL THEN [m |-> km, ptr |-> knuth_NULL]
             ELSE IF chunk = Stuck THEN
                 [m |-> [km EXCEPT !.hung = TRUE], ptr |-> knuth_NULL]
             ELSE knuth_allocate_chunk(km, chunk, n, clear)

\* int32_t size = l->size + r->size + 2; l->size = size; set_footer(l, size)
knuth_join(km, l, r) == knuth_set_size(km, l, load(km, l) + load(km, r) + 2)

\* the chunk pointer and the memory after the loop, as [m, chunk]
RECURSIVE knuth_coalesce_right(_, _)
knuth_coalesce_right(km, chunk) ==
    LET r == Val({knuth_get_adj_next(km, chunk)})
    IN  IF r # knuth_NULL /\ load(km, r) > 0 THEN
            knuth_coalesce_right(
                Val({knuth_join(a, chunk, r) :
                     a \in {knuth_remove_free_chunk(km, r)}}), chunk)
        ELSE [m |-> km, chunk |-> chunk]

RECURSIVE knuth_coalesce_left(_, _)
knuth_coalesce_left(km, chunk) ==
    LET l == Val({knuth_get_adj_prev(km, chunk)})
    IN  IF l # knuth_NULL /\ load(km, l) > 0 THEN
            knuth_coalesce_left(
                Val({knuth_join(a, l, chunk) :
                     a \in {knuth_remove_free_chunk(km, l)}}), l)
        ELSE [m |-> km, chunk |-> chunk]

knuth_coalesce(km, chunk) ==
    LET right == Val({knuth_coalesce_right(km, chunk)})
        left == Val({knuth_coalesce_left(right.m, right.chunk)})
    IN  knuth_add_free_chunk(left.m, left.chunk)

\* knuth_init(buff, buff_size) on the memory mem of the caller
knuth_init(mem, buff_size, wild) ==
    LET km == [buffer |-> mem, buffer_bytes |-> buff_size, base |-> NIL,
               wild |-> wild, hung |-> FALSE]
        init == 0
        sized == Val({store(b, init + 2, NIL) :
                      b \in {store(a, init + 1, NIL) :
                             a \in {store(km, init,
                                          knuth_round_up(buff_size) - 2)}}})
        footed == Val({knuth_set_footer(sized, init, load(sized, init))})
    IN  [footed EXCEPT !.base = knuth_get_offset(init)]

knuth_malloc(km, size) == knuth_alloc(km, size, FALSE)

knuth_realloc(km, ptr, size) == [m |-> km, ptr |-> ptr]

knuth_calloc(km, nmemb, size) == knuth_alloc(km, nmemb * size, TRUE)

knuth_free(km, ptr) ==
    IF ptr = knuth_NULL THEN km
    ELSE LET chunk == knuth_from_ptr(ptr)
         IN  IF ~ knuth_check_meta(km, chunk) THEN km
             ELSE IF load(km, chunk) >= 0 THEN km
             ELSE knuth_coalesce(
                      Val({knuth_set_size(km, chunk, abs(load(km, chunk)))}),
                      chunk)

-----------------------------------------------------------------------------
(* The process-global variant as a state machine.  The variables buffer and
   buffer_bytes are its globals of those names, lists[0] is its global base,
   power is not used; live is the set of pointers the caller holds. *)

KnuthWords == 12
KnuthRequests == {1, 8, 9}
\* the words a load outside the arena can yield
WildWords == {0, NIL}

KM(wild) ==
    [buffer |-> buffer, buffer_bytes |-> buffer_bytes, base |-> lists[0],
     wild |-> wild, hung |-> FALSE]

\* the call returned, leaving the globals as in km
KnuthReturned(km, held) ==
    /\ ~ km.hung
    /\ buffer' = km.buffer
    /\ buffer_bytes' = km.buffer_bytes
    /\ lists' = [lists EXCEPT ![0] = km.base]
    /\ live' = held
    /\ UNCHANGED power

\* knuth_init(buff, 4 * KnuthWords)
InitKnuth ==
    \E km \in {knuth_init(BlankArena(4 * KnuthWords), 4 * KnuthWords, 0)} :
        /\ buffer = km.buffer
        /\ buffer_bytes = km.buffer_bytes
        /\ lists = [c \in Classes |-> IF c = 0 THEN km.base ELSE NIL]
        /\ power = 1
        /\ live = {}

\* p = knuth_malloc(n)
DoKnuthMalloc ==
    \E n \in KnuthRequests : \E wild \in WildWords :
        \E r \in {knuth_malloc(KM(wild), n)} :
            r.ptr # knuth_NULL /\ KnuthReturned(r.m, live \cup {r.ptr})

\* p = knuth_calloc(1, n)
DoKnuthCalloc ==
    \E n \in KnuthRequests : \E wild \in WildWords :
        \E r \in {knuth_calloc(KM(wild), 1, n)} :
            r.ptr # knuth_NULL /\ KnuthReturned(r.m, live \cup {r.ptr})

\* knuth_free(p)
DoKnuthFree ==
    \E ptr \in live : \E wild \in WildWords :
        \E km \in {knuth_free(KM(wild), ptr)} :
            KnuthReturned(km, live \ {ptr})

NextKnuth == DoKnuthMalloc \/ DoKnuthCalloc \/ DoKnuthFree

SpecKnuth == InitKnuth /\ [][NextKnuth]_vars


-----------------------------------------------------------------------------
(* Claims about the process-global variant *)

\* ceil(n / 4), the words n bytes need
WordsFor(n) == (n + 3) \div 4

\* knuth_malloc(n) returned p: the chunk under p is taken and its payload has
\* at least WordsFor(n) words
Covers(km, p, n) ==
    /\ load(km, knuth_from_ptr(p)) < 0
    /\ abs(load(km, knuth_from_ptr(p))) >= WordsFor(n)

\* C37: in the process-global variant, for every n > 0 a successful
\* knuth_malloc(n) returns a taken chunk whose payload has at least ceil(n/4)
\* words, and its rounding of n bytes to words is (n + 3) >> 2, also for n = 1
\* mod 4
C37_PayloadCovers ==
    \A n \in KnuthRequests :
        /\ knuth_round_up(n) = WordsFor(n)
        /\ \A wild \in WildWords :
               LET r == Val({knuth_malloc(KM(wild), n)})
               IN  (r.ptr # knuth_NULL /\ ~ r.m.hung) => Covers(r.m, r.ptr, n)

\* C37, the part the code keeps: a request of a whole number of words is
\* rounded to that number and a successful knuth_malloc covers it
C37_AlignedCovers ==
    \A n \in {k \in KnuthRequests : k % 4 = 0} :
        /\ knuth_round_up(n) = WordsFor(n)
        /\ \A wild \in WildWords :
               LET r == Val({knuth_malloc(KM(wild), n)})
               IN  (r.ptr # knuth_NULL /\ ~ r.m.hung) => Covers(r.m, r.ptr, n)


\* the chunk headers met walking the arena from its first word by the sizes
RECURSIVE KnuthChunkWalk(_, _)
KnuthChunkWalk(km, c) ==
    IF ~ InArena(km, c) THEN {}
    ELSE {c} \cup KnuthChunkWalk(km, knuth_get_footer(km, c) + 1)

\* r->size > 0 : the chunks the code takes for free
KnuthFreeChunks(km) == {c \in KnuthChunkWalk(km, 0) : load(km, c) > 0}

\* the chunks met following the forward links from curr, up to fuel of them
RECURSIVE KnuthListFrom(_, _, _)
KnuthListFrom(km, curr, fuel) ==
    IF curr = knuth_NULL \/ fuel = 0 THEN <<>>
    ELSE <<curr>> \o KnuthListFrom(km, knuth_get_next(km, curr), fuel - 1)

KnuthList(km) == KnuthListFrom(km, knuth_get_chunk(km.base), WalkFuel(km))

\* the list rooted at base ends, holds exactly the free chunks, each once,
\* its head has backward link NIL and every other node's backward link is
\* the offset of the node before it
KnuthWellFormed(km) ==
    LET l == KnuthList(km)
    IN  /\ Len(l) < WalkFuel(km)
        /\ {l[i] : i \in 1 .. Len(l)} = KnuthFreeChunks(km)
        /\ Cardinality(KnuthFreeChunks(km)) = Len(l)
        /\ Len(l) > 0 => load(km, l[1] + 2) = NIL
        /\ \A i \in 2 .. Len(l) :
               load(km, l[i] + 2) = knuth_get_offset(l[i - 1])

\* C38: in the process-global variant, after knuth_init and any calls of
\* knuth_malloc, knuth_calloc and knuth_free the list rooted at base is a
\* well-formed doubly linked list of exactly the free chunks (head's backward
\* link nil, last forward link nil, links mutually inverse), and no call
\* walks it without end
C38_KnuthList ==
    /\ KnuthWellFormed(KM(0))
    /\ \A wild \in WildWords :
           /\ \A n \in KnuthRequests : ~ knuth_malloc(KM(wild), n).m.hung
           /\ \A p \in live : ~ knuth_free(KM(wild), p).hung


-----------------------------------------------------------------------------
(* add_chunk_list *)

\* the memory in which taken chunk c has been given its positive size, as
\* deallocate leaves it before the chunk is put on a list
Unmarked(c) == [state EXCEPT !.buffer = set_size(buffer, c, abs(buffer[c]))]

\* the position of the first entry of list sq whose size is strictly greater
\* than size, or one past the end
FirstGreater(buf, sq, size) ==
    IF \E j \in 1 .. Len(sq) : buf[sq[j]] > size
      THEN CHOOSE j \in 1 .. Len(sq) :
               /\ buf[sq[j]] > size
               /\ \A k \in 1 .. j - 1 : buf[sq[k]] <= size
      ELSE Len(sq) + 1

\* add_chunk_list(m, c, i) turned list before into list after of memory r
Placed(m, r, c, i) ==
    LET before == ClassList(m, i)
        after == ClassList(r, i)
        at == FirstGreater(m.buffer, before, m.buffer[c])
    IN  /\ after = SubSeq(before, 1, at - 1) \o <<c>>
                       \o SubSeq(before, at, Len(before))
        /\ at = Len(before) + 1 => r.buffer[c + 1] = NIL
        /\ at = 1 =>
               /\ r.lists[i] = get_offset(c)
               /\ r.buffer[c + 2] = NIL
               /\ Len(before) >= 1 => r.buffer[before[1] + 2] = get_offset(c)
        /\ at > 1 => r.lists[i] = m.lists[i]
        /\ \A j \in 2 .. Len(after) :
               r.buffer[after[j] + 2] = get_offset(after[j - 1])

\* C39: add_chunk_list places the incoming chunk immediately before the first
\* entry of the list that is strictly greater than it, so after every entry of
\* its size; with no greater entry it becomes the tail with forward link nil;
\* when it becomes the head the list head is its offset, its backward link is
\* nil and the old head's backward link is its offset.
C39_Placement ==
    \A c \in TakenChunksOf(state) : \A i \in Classes :
        Placed(Unmarked(c), Val({add_chunk_list(Unmarked(c), c, i)}), c, i)

\* a taken chunk and a list of two entries, the first of the chunk's size and
\* the second greater: the chunk goes between them
C39_Witness ==
    \E c \in TakenChunksOf(state) : \E i \in Classes :
        LET before == ClassList(state, i)
        IN  /\ Len(before) = 2
            /\ buffer[before[1]] = abs(buffer[c])
            /\ buffer[before[2]] > abs(buffer[c])
            /\ Len(ClassList(add_chunk_list(Unmarked(c), c, i), i)) = 3

====
